---- MODULE Spec2Model ----
(***************************************************************************)
(* file-auto-organizer: the resilient mover (FileMoveService) and the run  *)
(* orchestrator (MainService.runOnce), over an explicit file system.       *)
(***************************************************************************)
EXTENDS Integers, Sequences, FiniteSets, TLC

\* ------------------------------------------------------------------ bounds
\* FILE_MAX_RETRIES is read from config.yaml; the model draws it from 1..MaxRetriesCfg
MaxRetriesCfg == 2
\* entries the classifier responses of one run may hold in total
MaxResults == 2
\* file system calls that may fail, and files another process may create or
\* remove while the mover works: during one run, and during one moveFile call
\* taken alone
MaxFaults == 2
MaxCallFaults == 3
\* failures during a run followed for its routing and its directory registry
MaxRegFaults == 1
\* known files findMostSimilarFile is given when it is followed on its own
MaxKnown == 3
\* the largest MAX_SCAN_DEPTH the scanner is followed with
MaxScanDepth == 3
\* the renames of one call are counted up to this number
MaxCounted == 6
\* the files a racing process keeps at the mover's generated names at one time
MaxRaceFiles == 2
\* chunkArray on its own: batch sizes from -MaxNegBatch to MaxBatch, arrays of up
\* to MaxArray files, and at most MaxChunks chunks before memory runs out
MaxNegBatch == 2
MaxBatch == 4
MaxArray == 3
MaxChunks == 5
\* the process manager on its own: up to MaxCleanups registered cleanup functions
\* and up to MaxSignals process events (signals, uncaught errors, beforeExit)
MaxCleanups == 3
MaxSignals == 3

\* ------------------------------------------------------- program constants
FILE_RETRY_DELAY_BASE == 1000

\* --------------------------------------------------------------- universes
ROOT_DIR == <<"root">>
INCOMING_DIR == <<"in">>
\* the default directory of runOnce (a fixed non-ASCII literal in the source)
DEFAULT_BUCKET == <<"unclassified">>

\* names of the files that may lie in the incoming directory
FileNames == {"abc1", "zz"}
\* what the clock may show, to the second, when generateUniqueTargetPath reads it
Timestamps == {1}
\* the values of AI_BATCH_SIZE the model draws from
BatchSizes == {1, 2}
Transient_withEIO == {"EBUSY", "EACCES", "EPERM", "EIO"}
\* the error codes lines 48 and 132 retry on
Transient == {"EBUSY", "EACCES", "EPERM"}
\* the error codes attemptMoveRecursive tests for (lines 119, 123, 128, 132)
HandledCodes == {"EEXIST", "EXDEV", "ENOENT", "EBUSY", "EACCES", "EPERM"}

\* file names: the plain name, `${name}_${timestamp}${ext}`,
\* `${name}_${timestamp}_${counter}${ext}` (n >= 1) and `${base}.tmp-${uniqueSuffix}${ext}`
Plain(b) == [base |-> b, kind |-> "plain", ts |-> 0, n |-> 0]
Uniq(b, t, k) == [base |-> b, kind |-> "uniq", ts |-> t, n |-> k]
Tmp(b, k) == [base |-> b, kind |-> "tmp", ts |-> 0, n |-> k]
P(d, nm) == [dir |-> d, name |-> nm]
NoPath == P(<<>>, Plain(""))

\* file contents: an incoming file b holds content b, a file that was already in
\* the tree holds "old", a truncated copy holds "part"
Size(c) == IF c = "part" THEN 1 ELSE 2

\* ----------------------------------------------------------- path helpers
basename(d) == IF Len(d) = 0 THEN "" ELSE d[Len(d)]
dirname(d) == IF Len(d) = 0 THEN <<>> ELSE SubSeq(d, 1, Len(d) - 1)
IsPrefix(a, b) == Len(a) <= Len(b) /\ SubSeq(b, 1, Len(a)) = a
UnderRoot(p) == IsPrefix(ROOT_DIR, p.dir)

\* ------------------------------------------------------ file system model
NoFiles == [q \in {} |-> "old"]
Put(f, p, c) == [q \in (DOMAIN f) \cup {p} |-> IF q = p THEN c ELSE f[q]]
Del(f, p) == [q \in (DOMAIN f) \ {p} |-> f[q]]
renameSync_losesFile(f, src, dst) == Del(f, src)
\* fs.renameSync on success: the entry moves, an existing destination file is replaced
renameSync(f, src, dst) == Put(Del(f, src), dst, f[src])
\* fs.cpSync(src, dst, {force: true}) on success
cpSync(f, src, dst) == Put(f, dst, f[src])
unlinkSync_keepsFile(f, p) == f
\* fs.unlinkSync on success
unlinkSync(f, p) == Del(f, p)
\* fs.mkdirSync(dir, {recursive: true}): dir and every missing ancestor
mkdirSync(ds, d) == ds \cup {SubSeq(d, 1, k) : k \in 1..Len(d)}

VARIABLES
  cfg,      \* [maxRetries, batchSize, dryRun]: the configuration read at start-up
  files,    \* path -> content, the regular files of the file system
  dirs,     \* the directories of the file system
  mv,       \* the frame of the moveFile call in progress
  tempCounter, \* number of temporary names handed out (each uniqueSuffix is fresh)
  pc,       \* position of runOnce
  run,      \* the locals of runOnce
  currentKnownDirs, \* MainService.currentKnownDirs
  log,      \* the log entries written so far
  env,      \* what the environment did: files other processes created and
            \* removed, and the number of file system calls that failed
  fn        \* the frame of a call of findMostSimilarFile, of the scanner or of
            \* FileInfoService followed on its own

vars == <<cfg, files, dirs, mv, tempCounter, pc, run, currentKnownDirs, log, env, fn>>

DRY_RUN_never == FALSE
\* config.DRY_RUN: the process was started with --dry-run
DRY_RUN == cfg.dryRun

\* no call is followed on its own
NoCall == [op |-> "none"]

\* a log entry: what was logged, the file it names ("-" when none), the path it reports
L(msg, file, to) == [msg |-> msg, file |-> file, to |-> to]

\* ----------------------------------------------------- FileMoveService
\* a regular file lies at the path the directory sequence d spells
FileAt(f, d) == d # <<>> /\ P(dirname(d), Plain(basename(d))) \in DOMAIN f
\* a directory lies at path p
DirAt(ds, p) == p.name.kind = "plain" /\ Append(p.dir, p.name.base) \in ds
\* fs.existsSync(dir) is true for a regular file as well
ensureDir(ds, d) == IF d \in ds \/ FileAt(files, d) THEN ds ELSE mkdirSync(ds, d)

generateUniqueTargetPath_noCounter(f, targetDir, originalFilePath, t) ==
  P(targetDir, Uniq(originalFilePath.name.base, t, 0))
\* the free name generateUniqueTargetPath returns when the clock shows t
generateUniqueTargetPath(f, targetDir, originalFilePath, t) ==
  LET name == originalFilePath.name.base
      cand(k) == P(targetDir, Uniq(name, t, k))
  IN IF cand(0) \notin DOMAIN f THEN cand(0)
     ELSE cand(CHOOSE k \in 1..(Cardinality(DOMAIN f) + 1) :
                 /\ cand(k) \notin DOMAIN f
                 /\ \A j \in 1..(k - 1) : cand(j) \in DOMAIN f)

Pow2(k) == IF k <= 0 THEN 1 ELSE 2 ^ k
RetryDelay(attempt) == FILE_RETRY_DELAY_BASE * Pow2(attempt - 1)

\* the frame of a moveFile call: the code's locals and parameters, then what the
\* call did so far (renames, unlinks, sleeps, ...) and the file system at entry
IdleFrame ==
  [pc |-> "idle", file |-> NoPath, targetDir |-> <<>>, desired |-> NoPath,
   attempt |-> 0, uattempt |-> 0, tempPath |-> NoPath, finalPath |-> NoPath,
   result |-> "none", err |-> "none",
   renames |-> 0, onlyTransient |-> TRUE, fatal |-> FALSE, sleeps |-> <<>>,
   unlinks |-> 0, usleeps |-> <<>>,
   exdev |-> FALSE, laterFault |-> FALSE, srcUnlinked |-> FALSE,
   before |-> [files |-> NoFiles, dirs |-> {}]]

CallFrame(file, targetDir) ==
  [IdleFrame EXCEPT !.pc = "entry", !.file = file, !.targetDir = targetDir,
                    !.before = [files |-> files, dirs |-> dirs]]

Throw(frame, code) == [frame EXCEPT !.pc = "return", !.result = "throw", !.err = code,
                                    !.laterFault = frame.exdev]

ShouldRetry_oneMore(code, attempt, maxRetries) ==
  code \in Transient /\ attempt <= maxRetries
\* the retry condition of lines 48 and 132
ShouldRetry(code, attempt, maxRetries) == code \in Transient /\ attempt < maxRetries
IsSourceMissing_never(code) == FALSE
\* the condition of line 128
IsSourceMissing(code) == code = "ENOENT"
\* the size comparison of line 81
SizeMismatch(srcContent, tmpContent) == Size(srcContent) # Size(tmpContent)

\* a file system call fails only while the run's budget of failures lasts; a call
\* on a missing file always fails with ENOENT. Where another process races with
\* the mover (env.racing), a rename onto an existing file may fail with EEXIST
\* any number of times.
Unmetered(code) == env.racing /\ code = "EEXIST"
Budget(outcomes) ==
  IF env.faults < env.budget THEN outcomes
  ELSE {code \in outcomes : code \in {"OK", "ENOENT"} \/ Unmetered(code)}
IsFault(code) == code \notin {"OK", "ENOENT", "ENOTDIR", "EISDIR"}
Spend(code) ==
  [env EXCEPT !.faults = @ + (IF IsFault(code) /\ ~Unmetered(code) THEN 1 ELSE 0)]

\* the outcomes fs.renameSync(src, dst) can have in file system f: a missing
\* source, a destination whose parent is not a directory and a destination that
\* is a directory leave no choice
RenameOutcomes(f, src, dst) ==
  IF src \notin DOMAIN f THEN {"ENOENT"}
  ELSE IF dst.dir \notin dirs THEN {"ENOTDIR"}
  ELSE IF DirAt(dirs, dst) THEN {"EISDIR"}
  ELSE Budget({"OK", "EXDEV", "EIO"} \cup Transient
                \cup (IF dst \in DOMAIN f THEN {"EEXIST"} ELSE {}))

\* moveFile up to the first rename attempt (lines 146-159)
moveFile ==
  /\ mv.pc = "entry"
  /\ LET fileBaseName == mv.file.name.base
         targetDirBase == basename(mv.targetDir)
         normalizedTargetDir ==
           IF targetDirBase = fileBaseName THEN dirname(mv.targetDir) ELSE mv.targetDir
         targetPath == P(normalizedTargetDir, Plain(fileBaseName))
     IN IF DRY_RUN
        THEN /\ mv' = [mv EXCEPT !.pc = "return", !.result = "ok"]
             /\ dirs' = dirs
        ELSE /\ dirs' = ensureDir(dirs, normalizedTargetDir)
             /\ mv' = [mv EXCEPT !.pc = "rename", !.targetDir = normalizedTargetDir,
                                 !.desired = targetPath, !.attempt = 1]
  /\ UNCHANGED <<fn, cfg, files, tempCounter, pc, run, currentKnownDirs, log, env>>

\* one activation of attemptMoveRecursive: a rename attempt and the handling of
\* its error (lines 113-141)
attemptMoveRecursive ==
  /\ mv.pc = "rename"
  /\ \E code \in RenameOutcomes(files, mv.file, mv.desired), t \in Timestamps :
       LET m == [mv EXCEPT !.renames = IF @ < MaxCounted THEN @ + 1 ELSE @,
                           !.onlyTransient = @ /\ code \in Transient,
                           !.fatal = code \notin HandledCodes \cup {"OK"}]
       IN /\ CASE code = "OK" ->
                 /\ files' = renameSync(files, mv.file, mv.desired)
                 /\ mv' = [m EXCEPT !.pc = "return", !.result = "ok",
                                    !.finalPath = mv.desired]
                 /\ UNCHANGED tempCounter
            [] code = "EEXIST" ->
                 /\ mv' = [m EXCEPT !.desired =
                             generateUniqueTargetPath(files, mv.targetDir, mv.file, t)]
                 /\ UNCHANGED <<files, tempCounter>>
            [] code = "EXDEV" ->
                 /\ mv' = [m EXCEPT !.pc = "copy", !.exdev = TRUE]
                 /\ UNCHANGED <<files, tempCounter>>
            [] IsSourceMissing(code) ->
                 /\ mv' = [m EXCEPT !.pc = "return", !.result = "skipped"]
                 /\ UNCHANGED <<files, tempCounter>>
            [] ShouldRetry(code, mv.attempt, cfg.maxRetries) ->
                 /\ mv' = [m EXCEPT !.attempt = @ + 1,
                                    !.sleeps = Append(@, RetryDelay(mv.attempt))]
                 /\ UNCHANGED <<files, tempCounter>>
            [] OTHER ->
                 /\ mv' = Throw(m, code)
                 /\ UNCHANGED <<files, tempCounter>>
          /\ env' = Spend(code)
  /\ UNCHANGED <<fn, cfg, dirs, pc, run, currentKnownDirs, log>>

\* the outcomes of the copy: a full copy, a copy whose size differs from the
\* source's, or an exception that leaves nothing or a partial file behind
CopyOutcomes(f, src) ==
  IF src \notin DOMAIN f THEN {"ENOENT"} ELSE Budget({"OK", "SHORT", "EIO", "EIO-partial"})
StatOutcomes(f, src) == IF src \notin DOMAIN f THEN {"ENOENT"} ELSE Budget({"OK", "EIO"})
UnlinkOutcomes(f, src) ==
  IF src \notin DOMAIN f THEN {"ENOENT"} ELSE Budget({"OK", "EIO"} \cup Transient)
\* try { fs.unlinkSync(tempPath); } catch {}: the file is removed unless the call fails
CleanupOutcomes == {"OK", "EBUSY"}
cleanupTemp(f, tempPath, out) == IF out = "OK" THEN unlinkSync(f, tempPath) ELSE f

\* copyThenUnlinkWithFinalize, the copy to the temporary file (lines 66-76)
copyThenUnlinkWithFinalize_copy ==
  /\ mv.pc = "copy"
  /\ LET tempPath == P(mv.targetDir, Tmp(mv.file.name.base, tempCounter))
         m == [mv EXCEPT !.tempPath = tempPath]
     IN \E out \in CopyOutcomes(files, mv.file) :
          /\ CASE out = "OK" ->
                 /\ files' = cpSync(files, mv.file, tempPath)
                 /\ mv' = [m EXCEPT !.pc = "verify"]
            [] out = "SHORT" ->
                 /\ files' = Put(files, tempPath, "part")
                 /\ mv' = [m EXCEPT !.pc = "verify"]
            [] out = "EIO-partial" ->
                 /\ files' = Put(files, tempPath, "part")
                 /\ mv' = Throw(m, "EIO")
            [] OTHER ->
                 /\ files' = files
                 /\ mv' = Throw(m, out)
          /\ env' = Spend(out)
  /\ tempCounter' = tempCounter + 1
  /\ UNCHANGED <<fn, cfg, dirs, pc, run, currentKnownDirs, log>>

\* copyThenUnlinkWithFinalize, the size check (lines 78-84)
copyThenUnlinkWithFinalize_verify ==
  /\ mv.pc = "verify"
  /\ \E out \in StatOutcomes(files, mv.file), c \in Budget(CleanupOutcomes) :
       IF out # "OK"
       THEN /\ mv' = Throw(mv, out)
            /\ files' = files
            /\ env' = Spend(out)
       ELSE IF SizeMismatch(files[mv.file], files[mv.tempPath])
       THEN /\ files' = cleanupTemp(files, mv.tempPath, c)
            /\ mv' = Throw(mv, "copy-verify-failed")
            /\ env' = Spend(c)
       ELSE /\ mv' = [mv EXCEPT !.pc = "finalPath"]
            /\ files' = files
            /\ env' = env
  /\ UNCHANGED <<fn, cfg, dirs, tempCounter, pc, run, currentKnownDirs, log>>

\* copyThenUnlinkWithFinalize, the choice of the final name (lines 87-90)
copyThenUnlinkWithFinalize_finalPath ==
  /\ mv.pc = "finalPath"
  /\ \E t \in Timestamps :
       mv' = [mv EXCEPT !.pc = "finalRename",
                        !.finalPath = IF mv.desired \in DOMAIN files
                                      THEN generateUniqueTargetPath(files, mv.targetDir, mv.file, t)
                                      ELSE mv.desired]
  /\ UNCHANGED <<fn, cfg, files, dirs, tempCounter, pc, run, currentKnownDirs, log, env>>

\* copyThenUnlinkWithFinalize, the rename of the temporary file (lines 92-102)
copyThenUnlinkWithFinalize_rename ==
  /\ mv.pc = "finalRename"
  /\ \E code \in RenameOutcomes(files, mv.tempPath, mv.finalPath) \ {"EXDEV"},
        t \in Timestamps, second \in {"OK", "EIO"}, c \in CleanupOutcomes :
       CASE code = "OK" ->
              /\ files' = renameSync(files, mv.tempPath, mv.finalPath)
              /\ mv' = [mv EXCEPT !.pc = "unlink", !.uattempt = 1]
              /\ env' = env
         [] code = "EEXIST" ->
              LET finalPath == generateUniqueTargetPath(files, mv.targetDir, mv.file, t)
              IN IF second = "OK"
                 THEN /\ files' = renameSync(files, mv.tempPath, finalPath)
                      /\ mv' = [mv EXCEPT !.pc = "unlink", !.uattempt = 1,
                                          !.finalPath = finalPath, !.laterFault = TRUE]
                      /\ env' = Spend(code)
                 ELSE /\ files' = files
                      /\ mv' = Throw([mv EXCEPT !.finalPath = finalPath], second)
                      /\ env' = Spend(code)
         [] OTHER ->
              /\ files' = cleanupTemp(files, mv.tempPath, c)
              /\ mv' = Throw(mv, code)
              /\ env' = Spend(code)
  /\ UNCHANGED <<fn, cfg, dirs, tempCounter, pc, run, currentKnownDirs, log>>

\* one activation of unlinkWithRetryRecursive (lines 43-56), then lines 105-106
\* and 125-126 when the deletion succeeded
unlinkWithRetryRecursive ==
  /\ mv.pc = "unlink"
  /\ \E code \in UnlinkOutcomes(files, mv.file) :
       LET m == [mv EXCEPT !.unlinks = @ + 1]
       IN /\ CASE code = "OK" ->
                 /\ files' = unlinkSync(files, mv.file)
                 /\ mv' = [m EXCEPT !.pc = "return", !.result = "ok", !.srcUnlinked = TRUE]
            [] ShouldRetry(code, mv.uattempt, cfg.maxRetries) ->
                 /\ mv' = [m EXCEPT !.uattempt = @ + 1, !.laterFault = TRUE,
                                    !.usleeps = Append(@, RetryDelay(mv.uattempt))]
                 /\ files' = files
            [] OTHER ->
                 /\ mv' = Throw(m, code)
                 /\ files' = files
          /\ env' = Spend(code)
  /\ UNCHANGED <<fn, cfg, dirs, tempCounter, pc, run, currentKnownDirs, log>>

\* ------------------------------------------------------ other processes
\* another process removes the incoming file the mover is working on
EnvRemove ==
  /\ mv.pc \in {"rename", "copy", "verify", "finalPath", "finalRename", "unlink"}
  /\ env.faults < env.budget
  /\ mv.file \in DOMAIN files
  /\ files' = Del(files, mv.file)
  /\ env' = [env EXCEPT !.removed = @ \cup {mv.file.name.base}, !.faults = @ + 1]
  /\ UNCHANGED <<fn, cfg, dirs, mv, tempCounter, pc, run, currentKnownDirs, log>>

\* another process creates a file at the path the mover is about to rename to
EnvCreate ==
  /\ mv.pc \in {"rename", "finalRename"}
  /\ IF env.racing THEN Cardinality(env.created) < MaxRaceFiles
     ELSE env.faults < env.budget
  /\ LET p == IF mv.pc = "rename" THEN mv.desired ELSE mv.finalPath
     IN /\ p \notin DOMAIN files
        /\ p.dir \in dirs /\ ~DirAt(dirs, p)
        /\ files' = Put(files, p, "old")
        /\ env' = [env EXCEPT !.created = @ \cup {p},
                               !.faults = IF env.racing THEN @ ELSE @ + 1]
  /\ UNCHANGED <<fn, cfg, dirs, mv, tempCounter, pc, run, currentKnownDirs, log>>

\* the racing process removes a file it created
EnvClear ==
  /\ env.racing
  /\ mv.pc \in {"rename", "finalRename"}
  /\ \E p \in env.created \cap DOMAIN files :
       /\ p # mv.desired /\ files[p] = "old"
       /\ files' = Del(files, p)
       /\ env' = [env EXCEPT !.created = @ \ {p}]
  /\ UNCHANGED <<fn, cfg, dirs, mv, tempCounter, pc, run, currentKnownDirs, log>>

\* ------------------------------------------------------- FileInfoService
\* A string is a sequence of characters, a JavaScript value is a string, a
\* number or undefined.
Str(chars) == [type |-> "string", chars |-> chars]
Num(n) == [type |-> "number", n |-> n]
Undefined == [type |-> "undefined"]
Truthy(v) ==
  CASE v.type = "string" -> v.chars # <<>>
    [] v.type = "number" -> v.n # 0
    [] OTHER -> FALSE

\* TEXT_FILE_CONFIG (lines 217-223) and the limits of generateTextFileDescription
MAX_PREVIEW_LINES == 3
MAX_PREVIEW_CHARS == 300
\* the first entries of TEXT_FILE_EXTENSIONS (lines 225-268)
TEXT_FILE_EXTENSIONS == {".txt", ".log", ".md", ".json"}
\* BINARY_SIGNATURES (lines 271-280): PNG, JPEG, GIF, PDF, ZIP, RAR, ELF, PE/EXE
BINARY_SIGNATURES ==
  {<<137, 80, 78, 71>>, <<255, 216, 255>>, <<71, 73, 70>>, <<37, 80, 68, 70>>,
   <<80, 75, 3, 4>>, <<82, 97, 114, 33>>, <<127, 69, 76, 70>>, <<77, 90>>}

\* chunk.toString('utf8') on the bytes the model's files hold
CharOf(byte) ==
  CASE byte = 10 -> "\n" [] byte = 32 -> " " [] byte = 97 -> "a" [] byte = 98 -> "b"
    [] byte = 123 -> "{" [] byte = 125 -> "}" [] byte = 37 -> "%" [] byte = 45 -> "-"
    [] byte = 68 -> "D" [] byte = 70 -> "F" [] byte = 80 -> "P" [] OTHER -> "?"
Decode(bytes) == [k \in 1..Len(bytes) |-> CharOf(bytes[k])]

\* String.prototype.trim, split(/\r?\n/), join(" ") and substring(0, n)
IsBlank(c) == c \in {" ", "\n", "\t", "\r"}
RECURSIVE trimStart(_)
trimStart(w) == IF w # <<>> /\ IsBlank(Head(w)) THEN trimStart(Tail(w)) ELSE w
RECURSIVE trimEnd(_)
trimEnd(w) ==
  IF w # <<>> /\ IsBlank(w[Len(w)]) THEN trimEnd(SubSeq(w, 1, Len(w) - 1)) ELSE w
trim(w) == trimEnd(trimStart(w))
RECURSIVE splitLines(_, _)
splitLines(w, cur) ==
  IF w = <<>> THEN <<cur>>
  ELSE IF Head(w) = "\n" THEN <<cur>> \o splitLines(Tail(w), <<>>)
  ELSE splitLines(Tail(w), Append(cur, Head(w)))
RECURSIVE joinWith(_, _)
joinWith(lines, sep) ==
  IF lines = <<>> THEN <<>>
  ELSE IF Len(lines) = 1 THEN lines[1]
  ELSE lines[1] \o sep \o joinWith(Tail(lines), sep)
substring(w, n) == SubSeq(w, 1, IF n <= Len(w) THEN n ELSE Len(w))
Ellipsis == <<".", ".", ".">>

\* what the file system answers for a file: fs.openSync or fs.readSync fails for
\* a missing file, a directory, a file without read permission and a file that
\* another process locks or removes after the checks
readFails(file) == file.status \in {"missing", "dir", "noaccess", "openfails"}

\* validateFile (lines 506-546): every failure, a thrown one included, is an
\* invalid file
validateFile(file) ==
  CASE file.status = "missing" -> FALSE
    [] file.status = "statfails" -> FALSE
    [] file.status = "dir" -> FALSE
    [] Len(file.content.bytes) = 0 -> FALSE
    [] file.status = "huge" -> FALSE
    [] file.status = "noaccess" -> FALSE
    [] OTHER -> TRUE

MatchesSignature_never(sample) == FALSE
\* the signature test of lines 303-314
MatchesSignature(sample) ==
  \E signature \in BINARY_SIGNATURES :
    /\ Len(sample) >= Len(signature)
    /\ \A i \in 1..Len(signature) : sample[i] = signature[i]
\* the extension test of line 294
ExtensionIsText(ext) == ext \in TEXT_FILE_EXTENSIONS
\* isTextFile (lines 290-341); the ratios of lines 330-333 are NaN for an empty sample
isTextFile(file) ==
  IF ExtensionIsText(file.ext) THEN TRUE
  ELSE IF readFails(file) THEN FALSE
  ELSE LET sample == file.content.bytes
           nullBytes == Cardinality({i \in 1..Len(sample) : sample[i] = 0})
           nonPrintable ==
             Cardinality({i \in 1..Len(sample) :
                            \/ sample[i] \in 1..8
                            \/ sample[i] \in 14..31
                            \/ sample[i] = 127})
       IN IF MatchesSignature(sample) THEN FALSE
          ELSE /\ Len(sample) > 0
               /\ nullBytes * 100 < Len(sample)
               /\ nonPrintable * 10 < 3 * Len(sample)

\* the line the loops of readTextFileLines push for a trimmed line (lines
\* 388-396 and 408-415): <<>> stands for the break of line 394
FinalLine(trimmedLine, totalChars, maxChars, last) ==
  IF totalChars + Len(trimmedLine) > maxChars
  THEN IF maxChars - totalChars > 10
       THEN substring(trimmedLine, maxChars - totalChars) \o Ellipsis
       ELSE IF last THEN trimmedLine ELSE <<>>
  ELSE trimmedLine
\* the for loop of lines 384-403 over the complete lines of the only chunk
RECURSIVE previewLoop(_, _, _, _, _, _)
previewLoop(lines, k, acc, totalChars, maxLines, maxChars) ==
  IF k > Len(lines) THEN [result |-> acc, totalChars |-> totalChars]
  ELSE LET trimmedLine == trim(lines[k])
           finalLine == FinalLine(trimmedLine, totalChars, maxChars, FALSE)
       IN IF trimmedLine = <<>>
          THEN previewLoop(lines, k + 1, acc, totalChars, maxLines, maxChars)
          ELSE IF finalLine = <<>>
          THEN [result |-> acc, totalChars |-> totalChars]
          ELSE IF \/ Len(acc) + 1 >= maxLines
                  \/ totalChars + Len(finalLine) >= maxChars
          THEN [result |-> Append(acc, finalLine),
                totalChars |-> totalChars + Len(finalLine)]
          ELSE previewLoop(lines, k + 1, Append(acc, finalLine),
                           totalChars + Len(finalLine), maxLines, maxChars)
\* readTextFileLines (lines 360-445) for a file of one chunk: when the file cannot
\* be read, the second attempt of lines 424-432 fails as well and the result is []
readTextFileLines(file, maxLines, maxChars) ==
  IF readFails(file) THEN <<>>
  ELSE LET lines == splitLines(Decode(file.content.bytes), <<>>)
           leftover == lines[Len(lines)]
           done == previewLoop(SubSeq(lines, 1, Len(lines) - 1), 1, <<>>, 0,
                               maxLines, maxChars)
       IN IF /\ trim(leftover) # <<>>
             /\ Len(done.result) < maxLines /\ done.totalChars < maxChars
          THEN Append(done.result, FinalLine(trim(leftover), done.totalChars, maxChars, TRUE))
          ELSE done.result

\* generateTextFileDescription (lines 450-501). What JSON.parse and the regular
\* expressions of lines 478-480 find in the content is part of the content.
generateTextFileDescription(file) ==
  LET lines == readTextFileLines(file,
                                 IF 3 <= MAX_PREVIEW_LINES THEN 3 ELSE MAX_PREVIEW_LINES,
                                 IF 300 <= MAX_PREVIEW_CHARS THEN 300 ELSE MAX_PREVIEW_CHARS)
      json == file.content.json
      contentPreview == trim(substring(joinWith(lines, <<" ">>), 200))
      preview == IF Len(lines) > 0 /\ contentPreview # <<>>
                 THEN Str(contentPreview \o (IF Len(contentPreview) >= 200 THEN Ellipsis ELSE <<>>))
                 ELSE Str(<<>>)
  IN IF file.ext = ".json" /\ ~readFails(file)
     THEN IF Truthy(json.name) THEN json.name
          ELSE IF Truthy(json.title) THEN json.title
          ELSE IF Truthy(json.description) THEN json.description
          ELSE preview
     ELSE preview

\* getFileDescriptionFallback (lines 733-765): the empty string in both branches
getFileDescriptionFallback(file) == Str(<<>>)

\* how a promise settles
Fulfilled(value) == [state |-> "fulfilled", value |-> value]
Rejected == [state |-> "rejected", value |-> Undefined]

\* what exiftool.read may do for a file: throw, or resolve to tags of which
\* buildDescription (lines 617-631) makes "" or a text
ExifOutcomes == {"throws", "no-tags", "tags"}
\* lines 678-727: the description of the tags or, when it is empty, the fallback;
\* the catch of lines 713-727 answers a failure of exiftool with the fallback
describeByMetadata(file, exif) ==
  CASE exif = "tags" -> Fulfilled(Str(<<"a", "b">>))
    [] exif = "no-tags" -> Fulfilled(getFileDescriptionFallback(file))
    [] OTHER -> Fulfilled(getFileDescriptionFallback(file))

\* getFileDescription (lines 636-728): how its promise settles
getFileDescription(file, exif) ==
  IF ~validateFile(file) THEN Fulfilled(getFileDescriptionFallback(file))
  ELSE IF isTextFile(file) THEN Fulfilled(generateTextFileDescription(file))
  ELSE describeByMetadata(file, exif)

\* the files and contents getFileDescription and checkIsTextFile are applied to:
\* a text, a JSON, an image and an unknown extension; a file that is fine, missing,
\* a directory, above 2 GB, without read permission, failing in fs.statSync, or
\* failing when opened
InfoExts == {".txt", ".json", ".png", ".dat"}
InfoStatuses == {"ok", "missing", "dir", "huge", "noaccess", "statfails", "openfails"}
NoJson == [name |-> Undefined, title |-> Undefined, description |-> Undefined]
InfoContents ==
  {[bytes |-> <<>>, json |-> NoJson],
   \* "ab\nb", blank lines only, and "{a}" with what it may parse to
   [bytes |-> <<97, 98, 10, 98>>, json |-> NoJson],
   [bytes |-> <<32, 10, 32>>, json |-> NoJson],
   [bytes |-> <<123, 97, 125>>, json |-> NoJson],
   [bytes |-> <<123, 97, 125>>, json |-> [NoJson EXCEPT !.name = Str(<<"a", "b">>)]],
   [bytes |-> <<123, 97, 125>>, json |-> [NoJson EXCEPT !.name = Num(42)]],
   [bytes |-> <<123, 97, 125>>, json |-> [NoJson EXCEPT !.title = Str(<<"b">>)]],
   \* "%PDF-", a PNG and an EXE header, null bytes, control characters
   [bytes |-> <<37, 80, 68, 70, 45>>, json |-> NoJson],
   [bytes |-> <<137, 80, 78, 71, 13, 10, 26, 10, 0>>, json |-> NoJson],
   [bytes |-> <<77, 90, 0, 0>>, json |-> NoJson],
   [bytes |-> <<97, 0, 98>>, json |-> NoJson],
   [bytes |-> <<1, 2, 97>>, json |-> NoJson]}
InfoFiles == [ext : InfoExts, status : InfoStatuses, content : InfoContents]
\* the ways the promise of getFileDescription can settle
DescriptionStates ==
  {getFileDescription(file, exif).state : file \in InfoFiles, exif \in ExifOutcomes}

\* getFileDescription followed on its own, step by step
getFileDescription_validate ==
  /\ fn.op = "getFileDescription" /\ fn.pc = "validate"
  /\ fn' = IF validateFile(fn.file)
           THEN [fn EXCEPT !.pc = "isTextFile"]
           ELSE [fn EXCEPT !.pc = "return", !.result = getFileDescriptionFallback(fn.file)]
  /\ UNCHANGED <<cfg, files, dirs, mv, tempCounter, pc, run, currentKnownDirs, log, env>>
getFileDescription_isTextFile ==
  /\ fn.op = "getFileDescription" /\ fn.pc = "isTextFile"
  /\ fn' = [fn EXCEPT !.isText = isTextFile(fn.file),
                      !.pc = IF isTextFile(fn.file) THEN "text" ELSE "exiftool"]
  /\ UNCHANGED <<cfg, files, dirs, mv, tempCounter, pc, run, currentKnownDirs, log, env>>
getFileDescription_text ==
  /\ fn.op = "getFileDescription" /\ fn.pc = "text"
  /\ fn' = [fn EXCEPT !.pc = "return", !.result = generateTextFileDescription(fn.file)]
  /\ UNCHANGED <<cfg, files, dirs, mv, tempCounter, pc, run, currentKnownDirs, log, env>>
getFileDescription_exiftool ==
  /\ fn.op = "getFileDescription" /\ fn.pc = "exiftool"
  /\ \E exif \in ExifOutcomes :
       LET promise == describeByMetadata(fn.file, exif)
       IN fn' = [fn EXCEPT !.exif = exif, !.result = promise.value,
                           !.pc = IF promise.state = "rejected"
                                  THEN "rejected" ELSE "return"]
  /\ UNCHANGED <<cfg, files, dirs, mv, tempCounter, pc, run, currentKnownDirs, log, env>>
\* checkIsTextFile (lines 770-772)
checkIsTextFile ==
  /\ fn.op = "checkIsTextFile" /\ fn.pc = "call"
  /\ fn' = [fn EXCEPT !.pc = "return", !.isText = isTextFile(fn.file)]
  /\ UNCHANGED <<cfg, files, dirs, mv, tempCounter, pc, run, currentKnownDirs, log, env>>

\* ------------------------------------------------ classification over MCP
\* An error is its message, a sequence of words; a text is the JSON value it
\* spells, or no JSON at all.
Returns(value) == [kind |-> "returned", value |-> value]
Throws(message) == [kind |-> "thrown", value |-> message]
\* a JSON value is a list of classifications or an object {error: message}
List(items) == [type |-> "list", items |-> items, error |-> <<>>]
ErrorObject(message) == [type |-> "object", items |-> <<>>, error |-> message]
stringify(value) == [present |-> TRUE, json |-> TRUE, value |-> value]
NotJson == [present |-> TRUE, json |-> FALSE, value |-> List(<<>>)]
NoText == [present |-> FALSE, json |-> FALSE, value |-> List(<<>>)]
\* String.prototype.includes on the words of a message
includes(message, word) == \E k \in 1..Len(message) : message[k] = word

\* what the model call of the server may bring for a batch: an exception, a
\* reply without tool call, arguments that are no JSON, arguments without
\* classifications, or classifications
AiReplies(batch) ==
  [kind : {"throws"}, message : {<<"timeout">>, <<"connection", "error">>}, list : {<<>>}]
  \cup [kind : {"no-tool-call", "bad-arguments", "no-classifications"},
        message : {<<>>}, list : {<<>>}]
  \cup [kind : {"classifications"}, message : {<<>>},
        list : {SubSeq(batch, 1, n) : n \in 0..Len(batch)}]
\* the classify_files_batch handler of the server (lines 60-190): every
\* exception becomes an error payload with isError
classify_files_batch(reply) ==
  LET failed(message) ==
        [text |-> stringify(ErrorObject(<<"classification-failed:">> \o message)),
         isError |-> TRUE]
  IN CASE reply.kind = "throws" -> failed(reply.message)
       [] reply.kind = "no-tool-call" -> failed(<<"no-valid-result">>)
       [] reply.kind = "bad-arguments" -> failed(<<"parse-failed">>)
       [] reply.kind = "no-classifications" ->
            [text |-> stringify(List(<<>>)), isError |-> FALSE]
       [] OTHER -> [text |-> stringify(List(reply.list)), isError |-> FALSE]
HasError_never(classifications) == FALSE
\* if (classifications.error) of the client
HasError(classifications) ==
  classifications.type = "object" /\ classifications.error # <<>>
\* MCPClientService.classifyFilesBatch, the try block: the tool result is parsed
\* and an error object is thrown, wrapped by the inner catch
parseToolResult(result) ==
  IF result.kind = "thrown" THEN Throws(result.value)
  ELSE IF ~result.value.text.present THEN Throws(<<"no-valid-tool-result">>)
  ELSE IF ~result.value.text.json THEN Throws(<<"parse-result-failed:", "SyntaxError">>)
  ELSE LET classifications == result.value.text.value
       IN IF HasError(classifications)
          THEN Throws(<<"parse-result-failed:">> \o classifications.error)
          ELSE Returns(classifications)
\* MCPClientService.classifyFilesBatch, the outer catch: a connection error is
\* replaced by another error, any other is thrown again
catchOfClient(outcome) ==
  IF outcome.kind = "thrown"
       /\ (includes(outcome.value, "connection") \/ includes(outcome.value, "transport"))
  THEN Throws(<<"connection-interrupted">>)
  ELSE outcome

\* AIClassificationService.classifyBatch followed on its own
classifyBatch_call ==
  /\ fn.op = "classifyBatch" /\ fn.pc = "call"
  /\ fn' = IF Len(fn.files) = 0
           THEN [fn EXCEPT !.pc = "return", !.outcome = Returns(List(<<>>))]
           ELSE [fn EXCEPT !.pc = "connect"]
  /\ UNCHANGED <<cfg, files, dirs, mv, tempCounter, pc, run, currentKnownDirs, log, env>>
\* classifyFilesBatch: connect when not connected, outside the try block
classifyFilesBatch_connect ==
  /\ fn.op = "classifyBatch" /\ fn.pc = "connect"
  /\ fn' = IF ~fn.isConnected /\ fn.connect = "throws"
           THEN [fn EXCEPT !.pc = "catch", !.outcome = Throws(<<"connect-failed">>)]
           ELSE [fn EXCEPT !.pc = "callTool", !.isConnected = TRUE]
  /\ UNCHANGED <<cfg, files, dirs, mv, tempCounter, pc, run, currentKnownDirs, log, env>>
\* client.callTool: the request reaches the handler and its payload comes back,
\* or the transport fails, or the payload has no text content
classifyFilesBatch_callTool ==
  /\ fn.op = "classifyBatch" /\ fn.pc = "callTool"
  /\ LET payload == classify_files_batch(fn.reply)
     IN fn' = [fn EXCEPT !.pc = "parse",
                         !.payload = payload,
                         !.result =
                           CASE fn.transport = "delivers" -> Returns(payload)
                             [] fn.transport = "no-text" ->
                                  Returns([payload EXCEPT !.text = NoText])
                             [] fn.transport = "garbled" ->
                                  Returns([payload EXCEPT !.text = NotJson])
                             [] OTHER -> Throws(<<"transport", "closed">>)]
  /\ UNCHANGED <<cfg, files, dirs, mv, tempCounter, pc, run, currentKnownDirs, log, env>>
classifyFilesBatch_parse ==
  /\ fn.op = "classifyBatch" /\ fn.pc = "parse"
  /\ LET outcome == catchOfClient(parseToolResult(fn.result))
     IN fn' = [fn EXCEPT !.pc = "catch", !.outcome = outcome,
                         !.isConnected =
                           IF outcome.kind = "thrown"
                                /\ outcome.value = <<"connection-interrupted">>
                           THEN FALSE ELSE @]
  /\ UNCHANGED <<cfg, files, dirs, mv, tempCounter, pc, run, currentKnownDirs, log, env>>
\* classifyBatch: the result is returned, an exception is logged and thrown again
classifyBatch_return ==
  /\ fn.op = "classifyBatch" /\ fn.pc = "catch"
  /\ fn' = [fn EXCEPT !.pc = "return"]
  /\ UNCHANGED <<cfg, files, dirs, mv, tempCounter, pc, run, currentKnownDirs, log, env>>

\* ----------------------------------------------------------- MainService
\* MAX_SCAN_DEPTH and SIMILARITY_THRESHOLD (in hundredths) as config.yaml defaults them
MAX_SCAN_DEPTH == 3
SIMILARITY_THRESHOLD_PCT == 65

\* the paths a classifier response may name (relative to the root, as segments;
\* the empty sequence is the empty or all-blank string)
ClassifierPaths == {<<>>, <<"A">>, <<"A", "B">>}
\* paths of a classifier that puts the file's own name at the end of the
\* directory, once or more often
NestedPaths == {<<"abc1">>, <<"A", "abc1">>, <<"abc1", "abc1">>, <<"abc1", "abc1", "abc1">>}
\* paths of a classifier that climbs out of the directory it is given
EscapePaths == {<<"A">>, <<"..">>, <<"..", "out">>, <<"A", "..", "..", "in">>}
\* a fileName of a response entry that belongs to no file
GhostName == "ghost"

\* the characters of the names the model uses
Chars(name) ==
  CASE name = "abc1" -> <<"a", "b", "c", "1">>
    [] name = "abc2" -> <<"a", "b", "c", "2">>
    [] name = "ABC1" -> <<"A", "B", "C", "1">>
    [] name = "zz" -> <<"z", "z">>
    [] name = "unclassified" -> <<"u", "n", "c", "l", "a", "s", "s", "i", "f", "i", "e", "d">>
    [] OTHER -> <<>>
toLowerCase_identity(w) == w
toLowerCase(w) == [k \in 1..Len(w) |->
                     CASE w[k] = "A" -> "a" [] w[k] = "B" -> "b" [] w[k] = "C" -> "c"
                       [] w[k] = "Z" -> "z" [] OTHER -> w[k]]

Min2(x, y) == IF x <= y THEN x ELSE y
Max2(x, y) == IF x >= y THEN x ELSE y
RECURSIVE levenshtein(_, _)
levenshtein(a, b) ==
  IF Len(a) = 0 THEN Len(b)
  ELSE IF Len(b) = 0 THEN Len(a)
  ELSE Min2(Min2(levenshtein(Tail(a), b) + 1, levenshtein(a, Tail(b)) + 1),
            levenshtein(Tail(a), Tail(b)) + (IF Head(a) = Head(b) THEN 0 ELSE 1))

\* a score is the fraction num/den, or -Infinity
NegInfinity == [num |-> 0, den |-> 1, neg |-> TRUE]
ScoreGT_orEqual(x, y) == IF x.neg THEN FALSE ELSE IF y.neg THEN TRUE
                         ELSE x.num * y.den >= y.num * x.den
\* score > bestScore (line 55)
ScoreGT(x, y) == IF x.neg THEN FALSE ELSE IF y.neg THEN TRUE
                 ELSE x.num * y.den > y.num * x.den
ScoreGEThreshold_always(x) == TRUE
ScoreGEThreshold(x) == ~x.neg /\ x.num * 100 >= SIMILARITY_THRESHOLD_PCT * x.den

computeSimilarity(a, b) ==
  LET dist == levenshtein(toLowerCase(Chars(a)), toLowerCase(Chars(b)))
      m == Max2(Len(Chars(a)), Len(Chars(b)))
      maxLen == IF m = 0 THEN 1 ELSE m
  IN [num |-> maxLen - dist, den |-> maxLen, neg |-> FALSE]

\* the locals of findMostSimilarFile before its loop (lines 48-50); found = FALSE
\* stands for bestRelPath = bestDir = null
NoBest == [found |-> FALSE, bestRelPath |-> NoPath, bestDir |-> <<>>,
           bestScore |-> NegInfinity]
\* one iteration of the loop (lines 53-59)
findStep(fileName, rel, best) ==
  LET score == computeSimilarity(fileName, rel.name.base)
  IN IF ScoreGT(score, best.bestScore)
     THEN [found |-> TRUE, bestRelPath |-> rel, bestDir |-> rel.dir, bestScore |-> score]
     ELSE best
RECURSIVE findFrom(_, _, _, _)
findFrom(fileName, known, k, best) ==
  IF k > Len(known) THEN best
  ELSE findFrom(fileName, known, k + 1, findStep(fileName, known[k], best))
findMostSimilarFile(fileName, knownFileRelPaths) ==
  findFrom(fileName, knownFileRelPaths, 1, NoBest)

\* findMostSimilarFile followed on its own, one loop iteration at a time
findMostSimilarFile_iterate ==
  /\ fn.op = "findMostSimilarFile" /\ fn.pc = "loop"
  /\ fn.k <= Len(fn.known)
  /\ fn' = [fn EXCEPT !.best = findStep(fn.fileName, fn.known[fn.k], fn.best),
                      !.k = @ + 1]
  /\ UNCHANGED <<cfg, files, dirs, mv, tempCounter, pc, run, currentKnownDirs, log, env>>
findMostSimilarFile_return ==
  /\ fn.op = "findMostSimilarFile" /\ fn.pc = "loop"
  /\ fn.k > Len(fn.known)
  /\ fn' = [fn EXCEPT !.pc = "return"]
  /\ UNCHANGED <<cfg, files, dirs, mv, tempCounter, pc, run, currentKnownDirs, log, env>>

\* path.join and path.relative on segment sequences
RECURSIVE Norm(_, _)
Norm(stack, rest) ==
  IF rest = <<>> THEN stack
  ELSE IF Head(rest) = ".." THEN Norm(dirname(stack), Tail(rest))
  ELSE IF Head(rest) = "." THEN Norm(stack, Tail(rest))
  ELSE Norm(Append(stack, Head(rest)), Tail(rest))
Join(a, b) == Norm(<<>>, a \o b)
CommonLen(a, b) ==
  CHOOSE c \in 0..Min2(Len(a), Len(b)) :
    /\ SubSeq(a, 1, c) = SubSeq(b, 1, c)
    /\ (c < Min2(Len(a), Len(b)) => a[c + 1] # b[c + 1])
Relative(from, to) ==
  LET c == CommonLen(from, to)
  IN [k \in 1..(Len(from) - c) |-> ".."] \o SubSeq(to, c + 1, Len(to))

RECURSIVE SeqOf(_)
SeqOf(S) == IF S = {} THEN <<>>
            ELSE LET x == CHOOSE y \in S : TRUE IN <<x>> \o SeqOf(S \ {x})

\* FileScanService: the listings, in the order the directory is read
scanDirs(ds) ==
  SeqOf({[path |-> Relative(ROOT_DIR, d), slash |-> TRUE] :
           d \in {e \in ds : /\ IsPrefix(ROOT_DIR, e) /\ e # ROOT_DIR
                             /\ Len(e) - Len(ROOT_DIR) <= MAX_SCAN_DEPTH + 1}})
scanFiles(f) ==
  SeqOf({P(Relative(ROOT_DIR, q.dir), q.name) :
           q \in {e \in DOMAIN f : /\ IsPrefix(ROOT_DIR, e.dir)
                                   /\ Len(e.dir) - Len(ROOT_DIR) <= MAX_SCAN_DEPTH}})
getIncomingFiles(f) == SeqOf({q.name.base : q \in {e \in DOMAIN f : e.dir = INCOMING_DIR}})

\* the scanner as the code walks the tree. A file whose content is "socket" is
\* neither a directory nor a regular file.
readdirSync(ds, f, dir) ==
  SeqOf({basename(e) : e \in {x \in ds : x # <<>> /\ dirname(x) = dir}}
        \cup {q.name.base : q \in {x \in DOMAIN f : x.dir = dir}})
isDirectory(ds, fullPath) == fullPath \in ds
isFile(f, fullPath) ==
  LET q == P(dirname(fullPath), Plain(basename(fullPath)))
  IN q \in DOMAIN f /\ f[q] # "socket"
DepthAllows_orEqual(depth, maxDepth) == depth <= maxDepth
\* depth < MAX_SCAN_DEPTH (lines 23 and 49)
DepthAllows(depth, maxDepth) == depth < maxDepth

\* walk of scanDirs (lines 15-28) over the entries of dir not yet visited
RECURSIVE scanDirs_walk(_, _, _, _, _, _, _)
scanDirs_walk(ds, f, entries, dir, base, depth, maxDepth) ==
  IF entries = <<>> THEN <<>>
  ELSE LET fullPath == Append(dir, Head(entries))
           relPath == Append(base, Head(entries))
       IN (IF isDirectory(ds, fullPath)
           THEN <<[path |-> relPath, slash |-> TRUE]>>
                \o (IF DepthAllows(depth, maxDepth)
                    THEN scanDirs_walk(ds, f, readdirSync(ds, f, fullPath), fullPath,
                                       relPath, depth + 1, maxDepth)
                    ELSE <<>>)
           ELSE <<>>)
          \o scanDirs_walk(ds, f, Tail(entries), dir, base, depth, maxDepth)
\* walk of scanFiles (lines 42-56)
RECURSIVE scanFiles_walk(_, _, _, _, _, _, _)
scanFiles_walk(ds, f, entries, dir, base, depth, maxDepth) ==
  IF entries = <<>> THEN <<>>
  ELSE LET fullPath == Append(dir, Head(entries))
           relPath == Append(base, Head(entries))
       IN (IF isDirectory(ds, fullPath)
           THEN IF DepthAllows(depth, maxDepth)
                THEN scanFiles_walk(ds, f, readdirSync(ds, f, fullPath), fullPath,
                                    relPath, depth + 1, maxDepth)
                ELSE <<>>
           ELSE IF isFile(f, fullPath) THEN <<P(dirname(relPath), Plain(basename(relPath)))>>
           ELSE <<>>)
          \o scanFiles_walk(ds, f, Tail(entries), dir, base, depth, maxDepth)
\* scanDirs and scanFiles with MAX_SCAN_DEPTH = maxDepth (lines 30-33, 58-61)
scanDirsTo(ds, f, rootDir, maxDepth) ==
  IF rootDir \in ds
  THEN scanDirs_walk(ds, f, readdirSync(ds, f, rootDir), rootDir, <<>>, 0, maxDepth)
  ELSE <<>>
scanFilesTo(ds, f, rootDir, maxDepth) ==
  IF rootDir \in ds
  THEN scanFiles_walk(ds, f, readdirSync(ds, f, rootDir), rootDir, <<>>, 0, maxDepth)
  ELSE <<>>

\* the scanner followed on its own: scanDirs, then scanFiles
scan_scanDirs ==
  /\ fn.op = "scan" /\ fn.pc = "scanDirs"
  /\ fn' = [fn EXCEPT !.pc = "scanFiles",
                      !.dirsOut = scanDirsTo(dirs, files, ROOT_DIR, fn.maxDepth)]
  /\ UNCHANGED <<cfg, files, dirs, mv, tempCounter, pc, run, currentKnownDirs, log, env>>
scan_scanFiles ==
  /\ fn.op = "scan" /\ fn.pc = "scanFiles"
  /\ fn' = [fn EXCEPT !.pc = "return",
                      !.filesOut = scanFilesTo(dirs, files, ROOT_DIR, fn.maxDepth)]
  /\ UNCHANGED <<cfg, files, dirs, mv, tempCounter, pc, run, currentKnownDirs, log, env>>

\* updateKnownDirectories: the registry after recording newDirPath
InList(list, x) == \E k \in 1..Len(list) : list[k] = x
updateKnownDirectories_replaces(known, newDirPath) ==
  <<[path |-> Relative(ROOT_DIR, newDirPath), slash |-> FALSE]>>
updateKnownDirectories(known, newDirPath) ==
  LET relativeDir == [path |-> Relative(ROOT_DIR, newDirPath), slash |-> FALSE]
  IN IF relativeDir.path # <<>> /\ ~InList(known, relativeDir)
     THEN Append(known, relativeDir) ELSE known

RECURSIVE chunkFrom(_, _, _)
chunkFrom(array, chunkSize, i) ==
  IF i > Len(array) THEN <<>>
  ELSE <<SubSeq(array, i, Min2(i + chunkSize - 1, Len(array)))>>
         \o chunkFrom(array, chunkSize, i + chunkSize)
chunkArray(array, chunkSize) == chunkFrom(array, chunkSize, 1)

\* Array.prototype.slice(start, end): a negative index counts from the end
SliceIndex(n, k) == IF k < 0 THEN Max2(n + k, 0) ELSE Min2(k, n)
slice(array, start, end) ==
  LET from == SliceIndex(Len(array), start)
      to == SliceIndex(Len(array), end)
  IN IF from >= to THEN <<>> ELSE SubSeq(array, from + 1, to)
\* chunkArray followed on its own (lines 79-85): one iteration of the for loop,
\* which pushes a chunk while memory lasts
chunkArray_iterate ==
  /\ fn.op = "chunkArray" /\ fn.pc = "loop"
  /\ fn.i < Len(fn.array)
  /\ Len(fn.chunks) < MaxChunks
  /\ fn' = [fn EXCEPT !.chunks = Append(@, slice(fn.array, fn.i, fn.i + fn.chunkSize)),
                      !.i = @ + fn.chunkSize]
  /\ UNCHANGED <<cfg, files, dirs, mv, tempCounter, pc, run, currentKnownDirs, log, env>>
chunkArray_return ==
  /\ fn.op = "chunkArray" /\ fn.pc = "loop"
  /\ ~(fn.i < Len(fn.array))
  /\ fn' = [fn EXCEPT !.pc = "return"]
  /\ UNCHANGED <<cfg, files, dirs, mv, tempCounter, pc, run, currentKnownDirs, log, env>>
\* the locals of runOnce before the scan
NoRun ==
  [knownFiles |-> <<>>, filesToProcess |-> <<>>, similarityResults |-> <<>>,
   needAIClassification |-> <<>>, idx |-> 0, batches |-> <<>>, batchIndex |-> 0,
   named |-> {}, drawn |-> 0, i |-> 0, totalProcessed |-> 0, targetDir |-> <<>>,
   asked |-> {}, request |-> <<>>, given |-> <<>>, lacking |-> {}]

\* runOnce, the scans (lines 91-103)
runOnce_scan ==
  /\ pc = "start"
  /\ currentKnownDirs' = scanDirs(dirs)
  /\ LET filesToProcess == getIncomingFiles(files)
     IN /\ run' = [NoRun EXCEPT !.knownFiles = scanFiles(files),
                                !.filesToProcess = filesToProcess, !.idx = 1]
        /\ pc' = IF Len(filesToProcess) = 0 THEN "done" ELSE "match"
  /\ UNCHANGED <<fn, cfg, files, dirs, mv, tempCounter, log, env>>

\* runOnce, a scan that throws (lines 94-98 are in no try block): readdirSync or
\* statSync fails in scanDirs, in scanFiles (both only walk an existing root) or
\* in getIncomingFiles, and runOnce rejects
runOnce_scanFails ==
  /\ pc = "start"
  /\ env.faults < env.budget
  /\ \E call \in {"scanDirs", "scanFiles", "getIncomingFiles"} :
       /\ call \in {"scanDirs", "scanFiles"} => ROOT_DIR \in dirs
       /\ currentKnownDirs' = IF call = "scanDirs" THEN currentKnownDirs
                               ELSE scanDirs(dirs)
  /\ pc' = "rejected"
  /\ env' = [env EXCEPT !.faults = @ + 1]
  /\ UNCHANGED <<fn, cfg, files, dirs, mv, tempCounter, run, log>>

\* runOnce, one iteration of the similarity loop (lines 122-166)
runOnce_match ==
  /\ pc = "match"
  /\ LET f == run.filesToProcess[run.idx]
         r == findMostSimilarFile(f, run.knownFiles)
         last == run.idx = Len(run.filesToProcess)
         r1 == IF r.found /\ ScoreGEThreshold(r.bestScore)
               THEN [run EXCEPT !.similarityResults =
                       Append(@, [fileName |-> f, bestDir |-> r.bestDir,
                                  similarFile |-> r.bestRelPath])]
               ELSE [run EXCEPT !.needAIClassification = Append(@, f)]
     IN \E description \in DescriptionStates :
          \* line 147: the description is awaited outside any try
          IF ~(r.found /\ ScoreGEThreshold(r.bestScore)) /\ description = "rejected"
          THEN run' = run /\ pc' = "rejected"
          ELSE /\ run' = [r1 EXCEPT !.idx = IF last THEN 1 ELSE run.idx + 1]
               /\ pc' = IF last THEN "simMove" ELSE "match"
  /\ UNCHANGED <<fn, cfg, files, dirs, mv, tempCounter, currentKnownDirs, log, env>>

\* runOnce, the call of moveFile for a similarity hit (lines 169-172)
runOnce_simMove ==
  /\ pc = "simMove"
  /\ run.idx <= Len(run.similarityResults)
  /\ LET result == run.similarityResults[run.idx]
         targetDir == Join(ROOT_DIR, result.bestDir)
     IN /\ mv' = CallFrame(P(INCOMING_DIR, Plain(result.fileName)), targetDir)
        /\ run' = [run EXCEPT !.targetDir = targetDir]
  /\ pc' = "simWait"
  /\ UNCHANGED <<fn, cfg, files, dirs, tempCounter, currentKnownDirs, log, env>>

Awaited_atOnce(frame) == TRUE
\* await this.fileMoveService.moveFile(...) (lines 172 and 240): the loop goes on
\* when the promise of the call has settled
Awaited(frame) == frame.pc = "return"
MoveCatchPc_aborts(loopPc) == "done"
\* the catch of a failed move (lines 188-190, 258-260) ends the iteration: the
\* loop goes on with the next file
MoveCatchPc(loopPc) == loopPc

\* runOnce, after moveFile returned or threw for a similarity hit (lines 174-190)
runOnce_simMoved ==
  /\ pc = "simWait"
  /\ Awaited(mv)
  /\ LET fileName == mv.file.name.base
     IN IF mv.result = "throw"
        THEN /\ log' = log \cup {L("sim-move-failed", fileName, NoPath)}
             /\ currentKnownDirs' = currentKnownDirs
        ELSE /\ currentKnownDirs' = updateKnownDirectories(currentKnownDirs, run.targetDir)
             /\ log' = log \cup {L("moved", fileName, P(run.targetDir, Plain(fileName)))}
  /\ run' = [run EXCEPT !.idx = @ + 1]
  /\ mv' = IdleFrame
  /\ pc' = IF mv.result = "throw" THEN MoveCatchPc("simMove") ELSE "simMove"
  /\ UNCHANGED <<fn, cfg, files, dirs, tempCounter, env>>

\* runOnce, from the end of the similarity moves to the first batch (lines 191-203)
runOnce_batches ==
  /\ pc = "simMove"
  /\ run.idx > Len(run.similarityResults)
  /\ IF Len(run.needAIClassification) > 0
     THEN /\ run' = [run EXCEPT !.batches = chunkArray(run.needAIClassification, cfg.batchSize),
                                !.batchIndex = 1]
          /\ pc' = "classify"
     ELSE /\ run' = run
          /\ pc' = "done"
  /\ UNCHANGED <<fn, cfg, files, dirs, mv, tempCounter, currentKnownDirs, log, env>>

\* the entries a response of classifyBatch may hold for a batch: the response is
\* parsed JSON that nothing validates, so an entry may lack its path field
ResultEntries(batch) ==
  LET names == {batch[k] : k \in 1..Len(batch)}
  IN [fileName : names \cup {GhostName}, path : env.paths] \cup [fileName : names]
\* result.path is not undefined
HasPath(result) == "path" \in DOMAIN result

\* the loop header of line 202 after batch batchIndex: the next batch or the end
AfterBatch(r) ==
  IF r.batchIndex < Len(r.batches)
  THEN [r EXCEPT !.batchIndex = @ + 1, !.named = {}, !.i = 0]
  ELSE [r EXCEPT !.named = {}, !.i = 0]
AfterBatchPc(r) == IF r.batchIndex < Len(r.batches) THEN "classify" ELSE "done"
BatchCatchPc_aborts(r) == "done"
BatchCatchPc_rethrows(r) == "rejected"
\* the catch of lines 262-265 falls through to the rest of the loop body
BatchCatchPc(r) == AfterBatchPc(r)
RequestDirs_dropsLast(known) == SubSeq(known, 1, Len(known) - 1)
\* the knownDirs argument of classifyBatch (line 210): the registry as it is now
RequestDirs(known) == known

\* runOnce, the classifier call for one batch (lines 203-213, 262-265)
runOnce_classifyBatch ==
  /\ pc = "classify"
  /\ LET batch == run.batches[run.batchIndex]
         asked == [run EXCEPT !.asked = @ \cup {run.batchIndex},
                              !.request = RequestDirs(currentKnownDirs)]
     IN \/ /\ run' = [asked EXCEPT !.named = {}, !.i = 1]
           /\ pc' = "aiMove"
           /\ log' = log
        \/ /\ log' = log \cup {L("batch-failed", "-", NoPath)}
           /\ run' = AfterBatch(asked)
           /\ pc' = BatchCatchPc(run)
  /\ UNCHANGED <<fn, cfg, files, dirs, mv, tempCounter, currentKnownDirs, env>>

\* lines 226-232: an empty (or all-blank) path becomes the default directory
TargetDirOf(givenPath) == IF givenPath = <<>> THEN DEFAULT_BUCKET ELSE givenPath

\* runOnce, one classification result up to the call of moveFile (lines 216-240),
\* or up to the catch of lines 258-260 when the entry has no path
runOnce_aiMove ==
  /\ pc = "aiMove"
  /\ run.drawn < env.results
  /\ \E result \in ResultEntries(run.batches[run.batchIndex]) :
     LET batch == run.batches[run.batchIndex]
         found == InList(batch, result.fileName)
         targetDir == TargetDirOf(result.path)
         normalizedRelTargetDir ==
           IF basename(targetDir) = result.fileName THEN dirname(targetDir) ELSE targetDir
         fullTargetDir == Join(ROOT_DIR, normalizedRelTargetDir)
     IN IF ~found
        THEN /\ log' = log \cup {L("no-file-info", result.fileName, NoPath)}
             /\ run' = [run EXCEPT !.i = @ + 1, !.drawn = @ + 1,
                                   !.named = @ \cup {result.fileName}]
             /\ UNCHANGED <<mv, pc>>
        ELSE IF ~HasPath(result)
        THEN \* result.path.trim() throws a TypeError, caught at line 258
             /\ log' = log \cup {L("ai-move-failed", result.fileName, NoPath)}
             /\ run' = [run EXCEPT !.i = @ + 1, !.drawn = @ + 1,
                                   !.lacking = @ \cup {result.fileName},
                                   !.named = @ \cup {result.fileName}]
             /\ pc' = MoveCatchPc("aiMove")
             /\ mv' = mv
        ELSE /\ log' = log \cup (IF result.path = <<>>
                                 THEN {L("empty-path", result.fileName, NoPath)} ELSE {})
             /\ mv' = CallFrame(P(INCOMING_DIR, Plain(result.fileName)), fullTargetDir)
             /\ run' = [run EXCEPT !.targetDir = fullTargetDir, !.drawn = @ + 1,
                                   !.given = result.path,
                                   !.named = @ \cup {result.fileName}]
             /\ pc' = "aiWait"
  /\ UNCHANGED <<fn, cfg, files, dirs, tempCounter, currentKnownDirs, env>>

\* runOnce, after moveFile returned or threw for a classification result (lines 242-260)
runOnce_aiMoved ==
  /\ pc = "aiWait"
  /\ Awaited(mv)
  /\ LET fileName == mv.file.name.base
     IN IF mv.result = "throw"
        THEN /\ log' = log \cup {L("ai-move-failed", fileName, NoPath)}
             /\ currentKnownDirs' = currentKnownDirs
             /\ run' = [run EXCEPT !.i = @ + 1]
        ELSE /\ currentKnownDirs' = updateKnownDirectories(currentKnownDirs, run.targetDir)
             /\ log' = log \cup {L("moved", fileName, P(run.targetDir, Plain(fileName)))}
             /\ run' = [run EXCEPT !.i = @ + 1, !.totalProcessed = @ + 1]
  /\ mv' = IdleFrame
  /\ pc' = IF mv.result = "throw" THEN MoveCatchPc("aiMove") ELSE "aiMove"
  /\ UNCHANGED <<fn, cfg, files, dirs, tempCounter, env>>

\* runOnce, the end of the result loop of a batch (lines 261, 267-272, 202)
runOnce_batchDone ==
  /\ pc = "aiMove"
  /\ run' = AfterBatch(run)
  /\ pc' = AfterBatchPc(run)
  /\ UNCHANGED <<fn, cfg, files, dirs, mv, tempCounter, currentKnownDirs, log, env>>

\* the callback of cron.schedule (file-scan.service.ts lines 135-146) for a tick
\* that fires while the previous run waits in the delay between two batches
\* (line 270): nothing in the callback or in the options of line 147 looks for a
\* run in progress, so runOnce is called again on the same MainService and runs
\* to its first await. This second run is not followed further.
cronTick_duringRun ==
  /\ pc = "classify" /\ run.batchIndex > 1
  /\ fn = NoCall
  /\ currentKnownDirs' = scanDirs(dirs)
  /\ fn' = [op |-> "runOnce",
            pc |-> IF Len(getIncomingFiles(files)) = 0 THEN "done" ELSE "match",
            filesToProcess |-> getIncomingFiles(files),
            reset |-> currentKnownDirs # scanDirs(dirs)]
  /\ UNCHANGED <<cfg, files, dirs, mv, tempCounter, pc, run, log, env>>

\* ---------------------------------------------------------- specification
\* files that may already lie in the tree when the run starts
InitialTrees ==
  {{}, {P(<<"root", "A">>, Plain("abc2"))}, {P(<<"root", "A">>, Plain("abc1"))},
   {P(<<"root", "A">>, Plain("abc1")), P(<<"root", "A">>, Uniq("abc1", 1, 0))}}

Init ==
  /\ cfg \in [maxRetries : 1..MaxRetriesCfg, batchSize : BatchSizes, dryRun : BOOLEAN]
  /\ \E tree \in InitialTrees, inc \in SUBSET FileNames :
       /\ files = [q \in tree \cup {P(INCOMING_DIR, Plain(b)) : b \in inc} |->
                     IF q.dir = INCOMING_DIR THEN q.name.base ELSE "old"]
       /\ dirs = {INCOMING_DIR} \cup UNION {mkdirSync({}, q.dir) : q \in tree}
  /\ fn = NoCall
  /\ mv = IdleFrame
  /\ tempCounter = 0
  /\ pc = "start"
  /\ run = NoRun
  /\ currentKnownDirs = <<>>
  /\ log = {}
  /\ env = [created |-> {}, removed |-> {}, racing |-> FALSE, faults |-> 0, budget |-> MaxFaults,
            results |-> MaxResults, paths |-> ClassifierPaths]

Next ==
  \/ runOnce_scan
  \/ runOnce_scanFails
  \/ runOnce_match
  \/ runOnce_simMove
  \/ runOnce_simMoved
  \/ runOnce_batches
  \/ runOnce_classifyBatch
  \/ runOnce_aiMove
  \/ runOnce_aiMoved
  \/ runOnce_batchDone
  \/ moveFile
  \/ attemptMoveRecursive
  \/ copyThenUnlinkWithFinalize_copy
  \/ copyThenUnlinkWithFinalize_verify
  \/ copyThenUnlinkWithFinalize_finalPath
  \/ copyThenUnlinkWithFinalize_rename
  \/ unlinkWithRetryRecursive
  \/ EnvRemove
  \/ EnvCreate

Spec == Init /\ [][Next]_vars

\* one moveFile call taken alone: any file of the incoming directory (or one that
\* has just vanished from it) into any target directory
MoveTargets == {<<"root", "A">>, <<"root", "A", "B">>, <<"root", "A", "abc1">>}
InitMove ==
  /\ cfg \in [maxRetries : 1..MaxRetriesCfg, batchSize : {1}, dryRun : BOOLEAN]
  /\ \E tree \in InitialTrees, inc \in SUBSET {"abc1"}, targetDir \in MoveTargets :
       /\ files = [q \in tree \cup {P(INCOMING_DIR, Plain(b)) : b \in inc} |->
                     IF q.dir = INCOMING_DIR THEN q.name.base ELSE "old"]
       /\ dirs = {INCOMING_DIR} \cup UNION {mkdirSync({}, q.dir) : q \in tree}
       /\ mv = [IdleFrame EXCEPT !.pc = "entry", !.file = P(INCOMING_DIR, Plain("abc1")),
                                 !.targetDir = targetDir,
                                 !.before = [files |-> files, dirs |-> dirs]]
  /\ fn = NoCall
  /\ tempCounter = 0
  /\ pc = "moveFile"
  /\ run = NoRun
  /\ currentKnownDirs = <<>>
  /\ log = {}
  /\ env = [created |-> {}, removed |-> {}, racing |-> FALSE, faults |-> 0, budget |-> MaxCallFaults,
            results |-> 0, paths |-> {}]

NextMove ==
  \/ moveFile
  \/ attemptMoveRecursive
  \/ copyThenUnlinkWithFinalize_copy
  \/ copyThenUnlinkWithFinalize_verify
  \/ copyThenUnlinkWithFinalize_finalPath
  \/ copyThenUnlinkWithFinalize_rename
  \/ unlinkWithRetryRecursive
  \/ EnvRemove
  \/ EnvCreate

SpecMove == InitMove /\ [][NextMove]_vars

\* one moveFile call while another process keeps creating, and removing, files
\* at the names the mover generates; the mover's own steps are taken as long as
\* the call has not returned
InitRace ==
  /\ cfg \in [maxRetries : 1..MaxRetriesCfg, batchSize : {1}, dryRun : {FALSE}]
  /\ \E tree \in InitialTrees, targetDir \in MoveTargets :
       /\ files = [q \in tree \cup {P(INCOMING_DIR, Plain("abc1"))} |->
                     IF q.dir = INCOMING_DIR THEN q.name.base ELSE "old"]
       /\ dirs = {INCOMING_DIR} \cup UNION {mkdirSync({}, q.dir) : q \in tree}
       /\ mv = [IdleFrame EXCEPT !.pc = "entry", !.file = P(INCOMING_DIR, Plain("abc1")),
                                 !.targetDir = targetDir,
                                 !.before = [files |-> files, dirs |-> dirs]]
  /\ fn = NoCall
  /\ tempCounter = 0
  /\ pc = "moveFile"
  /\ run = NoRun
  /\ currentKnownDirs = <<>>
  /\ log = {}
  /\ env = [created |-> {}, removed |-> {}, racing |-> TRUE, faults |-> 0,
            budget |-> 1, results |-> 0, paths |-> {}]
MoverStep ==
  \/ moveFile
  \/ attemptMoveRecursive
  \/ copyThenUnlinkWithFinalize_copy
  \/ copyThenUnlinkWithFinalize_verify
  \/ copyThenUnlinkWithFinalize_finalPath
  \/ copyThenUnlinkWithFinalize_rename
  \/ unlinkWithRetryRecursive
NextRace ==
  \/ moveFile
  \/ attemptMoveRecursive
  \/ copyThenUnlinkWithFinalize_copy
  \/ copyThenUnlinkWithFinalize_verify
  \/ copyThenUnlinkWithFinalize_finalPath
  \/ copyThenUnlinkWithFinalize_rename
  \/ unlinkWithRetryRecursive
  \/ EnvRemove
  \/ EnvCreate
  \/ EnvClear
SpecRace == InitRace /\ [][NextRace]_vars /\ WF_vars(MoverStep)

\* a run followed for its routing and its directory registry: up to three
\* incoming files, few failures
\* the third file bears the name of the default directory
RegFileNames == FileNames \cup {DEFAULT_BUCKET[1]}
RegTrees == {{}, {P(<<"root", "A">>, Plain("abc2"))}}
InitReg ==
  /\ cfg \in [maxRetries : {1}, batchSize : BatchSizes, dryRun : BOOLEAN]
  /\ \E tree \in RegTrees, inc \in SUBSET RegFileNames :
       /\ files = [q \in tree \cup {P(INCOMING_DIR, Plain(b)) : b \in inc} |->
                     IF q.dir = INCOMING_DIR THEN q.name.base ELSE "old"]
       /\ dirs = {INCOMING_DIR} \cup UNION {mkdirSync({}, q.dir) : q \in tree}
  /\ fn = NoCall
  /\ mv = IdleFrame
  /\ tempCounter = 0
  /\ pc = "start"
  /\ run = NoRun
  /\ currentKnownDirs = <<>>
  /\ log = {}
  /\ env = [created |-> {}, removed |-> {}, racing |-> FALSE, faults |-> 0, budget |-> MaxRegFaults,
            results |-> MaxResults, paths |-> ClassifierPaths]

SpecReg == InitReg /\ [][Next]_vars

\* a run over one incoming file whose classifier repeats the file's name in the path
InitNest ==
  /\ cfg \in [maxRetries : {1}, batchSize : {1}, dryRun : BOOLEAN]
  /\ \E tree \in RegTrees, inc \in SUBSET {"abc1"} :
       /\ files = [q \in tree \cup {P(INCOMING_DIR, Plain(b)) : b \in inc} |->
                     IF q.dir = INCOMING_DIR THEN q.name.base ELSE "old"]
       /\ dirs = {INCOMING_DIR} \cup UNION {mkdirSync({}, q.dir) : q \in tree}
  /\ fn = NoCall
  /\ mv = IdleFrame
  /\ tempCounter = 0
  /\ pc = "start"
  /\ run = NoRun
  /\ currentKnownDirs = <<>>
  /\ log = {}
  /\ env = [created |-> {}, removed |-> {}, racing |-> FALSE, faults |-> 0, budget |-> MaxRegFaults,
            results |-> MaxResults, paths |-> NestedPaths]

SpecNest == InitNest /\ [][Next]_vars

\* a run whose classifier returns paths with '..' segments
InitEscape ==
  /\ cfg \in [maxRetries : {1}, batchSize : {1}, dryRun : BOOLEAN]
  /\ \E tree \in RegTrees, inc \in SUBSET {"abc1"} :
       /\ files = [q \in tree \cup {P(INCOMING_DIR, Plain(b)) : b \in inc} |->
                     IF q.dir = INCOMING_DIR THEN q.name.base ELSE "old"]
       /\ dirs = {INCOMING_DIR} \cup UNION {mkdirSync({}, q.dir) : q \in tree}
  /\ fn = NoCall
  /\ mv = IdleFrame
  /\ tempCounter = 0
  /\ pc = "start"
  /\ run = NoRun
  /\ currentKnownDirs = <<>>
  /\ log = {}
  /\ env = [created |-> {}, removed |-> {}, racing |-> FALSE, faults |-> 0, budget |-> MaxRegFaults,
            results |-> MaxResults, paths |-> EscapePaths]

SpecEscape == InitEscape /\ [][Next]_vars

\* the program at rest, while a single call is followed on its own
NoRunning ==
  /\ cfg = [maxRetries |-> 1, batchSize |-> 1, dryRun |-> FALSE]
  /\ mv = IdleFrame /\ tempCounter = 0
  /\ pc = "call" /\ run = NoRun
  /\ currentKnownDirs = <<>> /\ log = {}
  /\ env = [created |-> {}, removed |-> {}, racing |-> FALSE, faults |-> 0, budget |-> 0,
            results |-> 0, paths |-> {}]
AtRest == NoRunning /\ files = NoFiles /\ dirs = {}

\* findMostSimilarFile taken alone: an incoming file name against any list of up
\* to MaxKnown known files
SimFileNames == {"abc1", "ABC1", "zz"}
SimKnownFiles == {P(d, Plain(b)) : d \in {<<>>, <<"A">>}, b \in {"abc1", "abc2", "ABC1", "zz"}}
InitSim ==
  /\ AtRest
  /\ \E fileName \in SimFileNames, n \in 0..MaxKnown : \E known \in [1..n -> SimKnownFiles] :
       fn = [op |-> "findMostSimilarFile", pc |-> "loop", fileName |-> fileName,
             known |-> known, k |-> 1, best |-> NoBest]
NextSim ==
  \/ findMostSimilarFile_iterate
  \/ findMostSimilarFile_return
SpecSim == InitSim /\ [][NextSim]_vars

\* the scanner taken alone, with MAX_SCAN_DEPTH from 0 to MaxScanDepth, over
\* trees that reach one level below what the largest depth lists: a chain of
\* directories, a side directory, a file in any of them and a socket in the root
ScanChain == <<"A", "B", "C", "E", "G">>
ScanDirSets ==
  {{}} \cup {{ROOT_DIR} \cup {ROOT_DIR \o SubSeq(ScanChain, 1, k) : k \in 1..n} \cup side :
              n \in 0..Len(ScanChain), side \in {{}, {ROOT_DIR \o <<"Z">>}}}
InitScan ==
  /\ NoRunning
  /\ dirs \in ScanDirSets
  /\ \E holders \in SUBSET dirs, sockets \in SUBSET (dirs \cap {ROOT_DIR}) :
       files = [q \in {P(d, Plain("f")) : d \in holders} \cup {P(d, Plain("s")) : d \in sockets}
                  |-> IF q.name.base = "s" THEN "socket" ELSE "old"]
  /\ \E maxDepth \in 0..MaxScanDepth :
       fn = [op |-> "scan", pc |-> "scanDirs", maxDepth |-> maxDepth,
             dirsOut |-> <<>>, filesOut |-> <<>>]
NextScan ==
  \/ scan_scanDirs
  \/ scan_scanFiles
SpecScan == InitScan /\ [][NextScan]_vars

\* classifyBatch taken alone, for every reply of the model, every state of the
\* connection and every behaviour of the transport
ClassifyEntry(fileName) == [fileName |-> fileName, path |-> <<"A">>]
InitClassify ==
  /\ AtRest
  /\ \E batch \in {<<>>, <<ClassifyEntry("abc1"), ClassifyEntry("zz")>>} :
     \E reply \in AiReplies(batch), isConnected \in BOOLEAN,
        connect \in {"ok", "throws"},
        transport \in {"delivers", "no-text", "garbled", "throws"} :
       fn = [op |-> "classifyBatch", pc |-> "call", files |-> batch, reply |-> reply,
             isConnected |-> isConnected, connect |-> connect, transport |-> transport,
             payload |-> [text |-> NoText, isError |-> FALSE],
             result |-> Returns(List(<<>>)), outcome |-> Returns(List(<<>>))]
NextClassify ==
  \/ classifyBatch_call
  \/ classifyFilesBatch_connect
  \/ classifyFilesBatch_callTool
  \/ classifyFilesBatch_parse
  \/ classifyBatch_return
SpecClassify == InitClassify /\ [][NextClassify]_vars

\* scheduled mode: runs started by cron ticks on one MainService
NextCron ==
  \/ Next
  \/ cronTick_duringRun
SpecCron == InitReg /\ [][NextCron]_vars

\* chunkArray taken alone, for lists of distinct files and every batch size that
\* config.yaml may set (ai.batch_size is not validated)
ChunkArrays ==
  {a \in UNION {[1..n -> RegFileNames] : n \in 0..MaxArray} :
     \A j, k \in 1..Len(a) : j # k => a[j] # a[k]}
InitChunk ==
  /\ AtRest
  /\ \E array \in ChunkArrays, chunkSize \in (0 - MaxNegBatch)..MaxBatch :
       fn = [op |-> "chunkArray", pc |-> "loop", array |-> array,
             chunkSize |-> chunkSize, i |-> 0, chunks |-> <<>>]
NextChunk ==
  \/ chunkArray_iterate
  \/ chunkArray_return
SpecChunk == InitChunk /\ [][NextChunk]_vars

\* FileInfoService taken alone: getFileDescription or checkIsTextFile on a file
\* of any extension, state and content of InfoFiles
InitInfo ==
  /\ AtRest
  /\ \E op \in {"getFileDescription", "checkIsTextFile"}, file \in InfoFiles :
       fn = [op |-> op, pc |-> IF op = "checkIsTextFile" THEN "call" ELSE "validate",
             file |-> file, isText |-> FALSE, exif |-> "none", result |-> Undefined]
NextInfo ==
  \/ getFileDescription_validate
  \/ getFileDescription_isTextFile
  \/ getFileDescription_text
  \/ getFileDescription_exiftool
  \/ checkIsTextFile
SpecInfo == InitInfo /\ [][NextInfo]_vars

\* ------------------------------------------------------------ ProcessManager
\* what a registered cleanup function does when it is called: it returns, it
\* throws, it returns a promise that resolves later, or one that rejects later
CleanupKinds == {"returns", "throws", "resolves", "rejects"}
IsAsync(kind) == kind \in {"resolves", "rejects"}
Fails(kind) == kind \in {"throws", "rejects"}
\* the events init() listens to, and the exit code of each handler ("none":
\* the beforeExit handler does not call process.exit)
ProcessEvents == {"SIGINT", "SIGTERM", "beforeExit", "uncaughtException", "unhandledRejection"}
ExitCodeOf(event) ==
  CASE event \in {"SIGINT", "SIGTERM"} -> "0"
    [] event = "beforeExit" -> "none"
    [] OTHER -> "1"

\* the loop of executeCleanup after cleanup i of n threw or rejected: the catch
\* records the error and the loop goes on with the next index
LoopAfterThrow_abort(i, n) == n + 1
LoopAfterThrow(i, n) == i + 1

\* executeCleanup has returned: the loop is past the last registered function
CleanupReturned(f) == f.isShuttingDown /\ ~f.awaiting /\ f.i > Len(f.cleanupFunctions)

\* registerCleanup(fn, description)
registerCleanup ==
  /\ fn.op = "processManager" /\ ~fn.exited
  /\ Len(fn.cleanupFunctions) < MaxCleanups
  \* between two synchronous steps of the loop no other code runs
  /\ ~fn.isShuttingDown \/ fn.awaiting
  /\ \E kind \in CleanupKinds :
       fn' = [fn EXCEPT !.cleanupFunctions = Append(@, kind)]
  /\ UNCHANGED <<cfg, files, dirs, mv, tempCounter, pc, run, currentKnownDirs, log, env>>

\* init(): the five listeners are installed
processManager_init ==
  /\ fn.op = "processManager" /\ ~fn.initialised /\ ~fn.exited
  /\ fn' = [fn EXCEPT !.initialised = TRUE]
  /\ UNCHANGED <<cfg, files, dirs, mv, tempCounter, pc, run, currentKnownDirs, log, env>>

\* one of the listeners of init() is called. With isShuttingDown set,
\* executeCleanup returns at once and the handler goes on to its process.exit;
\* otherwise the handler sets the flag, enters the loop and waits for it.
processManager_event ==
  /\ fn.op = "processManager" /\ fn.initialised /\ ~fn.exited
  /\ fn.signals < MaxSignals
  \* an event is delivered between two turns of the event loop: before the
  \* clean-up, or while the clean-up waits for a promise
  /\ ~fn.isShuttingDown \/ fn.awaiting
  /\ \E event \in ProcessEvents :
       \* beforeExit is emitted when the event loop has run empty
       /\ event = "beforeExit" => ~fn.awaiting
       /\ IF fn.isShuttingDown
          THEN fn' = [fn EXCEPT !.signals = @ + 1,
                                !.exited = ExitCodeOf(event) # "none",
                                !.exitCode = ExitCodeOf(event)]
          ELSE fn' = [fn EXCEPT !.signals = @ + 1, !.isShuttingDown = TRUE,
                                !.i = 1, !.owner = ExitCodeOf(event)]
  /\ UNCHANGED <<cfg, files, dirs, mv, tempCounter, pc, run, currentKnownDirs, log, env>>

\* executeCleanup, one iteration of the loop: cleanup i is called
executeCleanup_call ==
  /\ fn.op = "processManager" /\ ~fn.exited
  /\ fn.isShuttingDown /\ ~fn.awaiting /\ fn.i <= Len(fn.cleanupFunctions)
  /\ LET kind == fn.cleanupFunctions[fn.i]
         n == Len(fn.cleanupFunctions) IN
       fn' = IF IsAsync(kind)
             THEN [fn EXCEPT !.started = Append(@, fn.i), !.awaiting = TRUE]
             ELSE [fn EXCEPT !.started = Append(@, fn.i),
                             !.finished = Append(@, fn.i),
                             !.errors = @ + (IF Fails(kind) THEN 1 ELSE 0),
                             !.i = IF Fails(kind) THEN LoopAfterThrow(fn.i, n)
                                   ELSE fn.i + 1]
  /\ UNCHANGED <<cfg, files, dirs, mv, tempCounter, pc, run, currentKnownDirs, log, env>>

\* executeCleanup: the promise of cleanup i settles and the loop resumes
executeCleanup_settle ==
  /\ fn.op = "processManager" /\ ~fn.exited
  /\ fn.isShuttingDown /\ fn.awaiting
  /\ LET kind == fn.cleanupFunctions[fn.i]
         n == Len(fn.cleanupFunctions) IN
       fn' = [fn EXCEPT !.awaiting = FALSE,
                        !.finished = Append(@, fn.i),
                        !.errors = @ + (IF Fails(kind) THEN 1 ELSE 0),
                        !.i = IF Fails(kind) THEN LoopAfterThrow(fn.i, n)
                              ELSE fn.i + 1]
  /\ UNCHANGED <<cfg, files, dirs, mv, tempCounter, pc, run, currentKnownDirs, log, env>>

\* the handler that ran executeCleanup resumes after its await and calls
\* process.exit with its code
processManager_exit ==
  /\ fn.op = "processManager" /\ ~fn.exited
  /\ CleanupReturned(fn) /\ fn.owner # "none"
  /\ fn' = [fn EXCEPT !.exited = TRUE, !.exitCode = fn.owner]
  /\ UNCHANGED <<cfg, files, dirs, mv, tempCounter, pc, run, currentKnownDirs, log, env>>

\* the process manager taken alone, from its construction
InitProc ==
  /\ AtRest
  /\ fn = [op |-> "processManager", cleanupFunctions |-> <<>>,
           isShuttingDown |-> FALSE, initialised |-> FALSE, signals |-> 0,
           i |-> 0, awaiting |-> FALSE, started |-> <<>>, finished |-> <<>>,
           errors |-> 0, owner |-> "none", exited |-> FALSE, exitCode |-> "none"]
NextProc ==
  \/ registerCleanup
  \/ processManager_init
  \/ processManager_event
  \/ executeCleanup_call
  \/ executeCleanup_settle
  \/ processManager_exit
SpecProc == InitProc /\ [][NextProc]_vars

\* ------------------------------------------------------------------ claims
Returned == mv.pc = "return"
Normal == ~cfg.dryRun
\* the content the file being moved had when moveFile was called
OriginalContent == mv.before.files[mv.file]
Holds(p, c) == p \in DOMAIN files /\ files[p] = c
\* the files of this run's listing, and the places under the root (temporary
\* files apart) that hold the content of incoming file b
Listed == {run.filesToProcess[k] : k \in 1..Len(run.filesToProcess)}
CopiesUnderRoot(b) ==
  {p \in DOMAIN files : UnderRoot(p) /\ p.name.kind # "tmp" /\ files[p] = b}
AtIncoming(b) == P(INCOMING_DIR, Plain(b)) \in DOMAIN files
ExpectedDelays(n) == [k \in 1..(n - 1) |-> FILE_RETRY_DELAY_BASE * Pow2(k - 1)]

\* C1: after a run that is not a dry run, every file listed at run start (and not
\* removed by another process) is either still in the incoming directory or at
\* exactly one path under the root, never at both and never at neither.
C1_ExactlyOnePlace ==
  (pc = "done" /\ Normal) =>
    \A b \in Listed \ env.removed :
      \/ AtIncoming(b) /\ CopiesUnderRoot(b) = {}
      \/ ~AtIncoming(b) /\ Cardinality(CopiesUnderRoot(b)) = 1

\* C2: when moveFile returns or throws, a file that was at targetDir/basename(file)
\* when it was called is still there with the content it had, and the moved file
\* is under another name.
C2_NeverOverwrites ==
  (Returned /\ Normal) =>
    LET target == P(mv.targetDir, Plain(mv.file.name.base))
    IN target \in DOMAIN mv.before.files =>
         /\ Holds(target, mv.before.files[target])
         /\ mv.finalPath # target

\* C3: at the end of a run every listed file has a log entry saying it was moved,
\* or a failure entry that names it.
Accounted(b) ==
  \E e \in log : e.file = b /\ e.msg \in {"moved", "sim-move-failed", "ai-move-failed"}
C3_NoFileDropped ==
  pc = "done" => \A b \in Listed : Accounted(b)

\* C4: when the result loop of a batch ends, every file of the batch that no
\* response entry named (the response left it out, or misnamed it) has a log
\* entry naming it.
C4_OmittedIsLogged ==
  [][(pc = "aiMove" /\ pc' \in {"classify", "done"}) =>
       \A k \in 1..Len(run.batches[run.batchIndex]) :
         LET b == run.batches[run.batchIndex][k]
         IN b \notin run.named => \E e \in log' : e.file = b]_vars

\* C5: a moveFile call whose rename failed with EXDEV and in which no later step
\* failed has returned normally with the source gone, the final destination
\* holding the original content and the temporary file gone.
C5_CrossDeviceMoves ==
  (Returned /\ mv.exdev /\ ~mv.laterFault) =>
    /\ mv.result = "ok"
    /\ mv.file \notin DOMAIN files
    /\ Holds(mv.finalPath, OriginalContent)
    /\ mv.tempPath \notin DOMAIN files
C5_Witness ==
  Returned /\ mv.exdev /\ ~mv.laterFault /\ mv.srcUnlinked

\* C6: when the copy's size differs from the source's, the temporary file is
\* gone, the move has thrown, the source is in place and no file was created in
\* the tree by this move.
C6_SizeMismatchCleansUp ==
  (Returned /\ mv.err = "copy-verify-failed") =>
    /\ mv.tempPath \notin DOMAIN files
    /\ mv.result = "throw"
    /\ Holds(mv.file, OriginalContent)
    /\ (DOMAIN files) \ (DOMAIN mv.before.files) \subseteq env.created

\* C7: from the EXDEV on, at every step and whatever the outcome, the original
\* content is at the source path or at the final destination path (unless another
\* process removed the source).
C7_CopyBeforeDelete ==
  (mv.exdev /\ mv.file.name.base \notin env.removed) =>
    \/ Holds(mv.file, OriginalContent)
    \/ Holds(mv.finalPath, OriginalContent)
C7_Witness ==
  mv.exdev /\ mv.srcUnlinked /\ Holds(mv.finalPath, OriginalContent)

C9_MissingSourceSkips ==
  [][(mv.pc = "rename" /\ mv.file \notin DOMAIN files /\ mv' # mv) =>
       /\ mv'.pc = "return"
       /\ mv'.result # "throw"
       /\ mv'.sleeps = mv.sleeps
       /\ mv'.attempt = mv.attempt
       /\ mv'.renames = mv.renames + 1]_vars
C9_Witness ==
  Returned /\ mv.result = "skipped" /\ mv.attempt = 2

\* C10: a moveFile call whose source does not exist leaves the files and the
\* directories as they were when it was called (files other processes created
\* apart).
C10_MissingSourceNoOp ==
  (Returned /\ mv.file \notin DOMAIN mv.before.files) =>
    /\ dirs = mv.before.dirs
    /\ (DOMAIN files) \ env.created \subseteq DOMAIN mv.before.files
    /\ \A p \in DOMAIN mv.before.files : Holds(p, mv.before.files[p])

\* C11: once a rename of attemptMoveRecursive has failed with an error that is
\* none of destination-exists, cross-device, source-missing or transient, the
\* call has thrown that error, with no sleep for that attempt and no further
\* rename attempt.
C11_OtherErrorsPropagate ==
  mv.fatal =>
    /\ Returned /\ mv.result = "throw"
    /\ mv.err \notin HandledCodes
    /\ ~mv.exdev
    /\ Len(mv.sleeps) = mv.attempt - 1
C11_Witness ==
  mv.fatal /\ Returned /\ mv.attempt = 2 /\ mv.sleeps = <<FILE_RETRY_DELAY_BASE>>

\* C12: with DRY_RUN set, no step of runOnce changes the files or the directories,
\* whether the file at hand was routed by similarity or by the classifier.
C12_DryRunTouchesNothing ==
  [][cfg.dryRun => (files' = files /\ dirs' = dirs)]_vars
C12_Witness ==
  /\ pc = "done" /\ cfg.dryRun
  /\ Len(run.similarityResults) > 0 /\ run.totalProcessed > 0
  /\ \A b \in Listed : \E e \in log : e.msg = "moved" /\ e.file = b

\* C13: a run in which the classifier call of some batch threw still ends
\* normally, with every batch sent to the classifier (the batches after the
\* failed one included); the results of a later batch are moved.
C13_BatchFailureIsolated ==
  (pc = "done" /\ Len(run.batches) > 0) => run.asked = 1..Len(run.batches)
C13_Witness ==
  /\ pc = "done" /\ Len(run.batches) = 2 /\ run.asked = {1, 2}
  /\ \E e \in log : e.msg = "batch-failed"
  /\ \E e \in log : e.msg = "moved" /\ e.file = run.batches[2][1]
  /\ \A e \in log : e.file # run.batches[1][1]

\* at the end of the run moveFile has returned or thrown for every similarity hit
SimilarityAttempted ==
  pc = "done" =>
    \A k \in 1..Len(run.similarityResults) :
      \E e \in log : /\ e.file = run.similarityResults[k].fileName
                     /\ e.msg \in {"moved", "sim-move-failed"}
\* a step of runOnce that takes up a moveFile call that threw
MoveFailureCaught ==
  (pc \in {"simWait", "aiWait"} /\ pc' # pc /\ mv.result = "throw") =>
    /\ pc' = (IF pc = "simWait" THEN "simMove" ELSE "aiMove")
    /\ (pc = "simWait" => run'.idx = run.idx + 1)
    /\ (pc = "aiWait" => run'.i = run.i + 1)
    /\ \E e \in log' : /\ e.file = mv.file.name.base
                        /\ e.msg \in {"sim-move-failed", "ai-move-failed"}
\* C14: when moveFile throws for a file, in the similarity phase or in the AI
\* phase, a failure entry naming the file is logged and the loop goes on with the
\* next file; at the end of the run moveFile has been called for every
\* similarity hit.
C14_MoveFailureIsolated ==
  []SimilarityAttempted /\ [][MoveFailureCaught]_vars
C14_Witness ==
  /\ mv.pc = "return" /\ mv.result = "ok" /\ Normal
  /\ mv.finalPath \in DOMAIN files
  /\ \E e \in log : /\ e.msg \in {"sim-move-failed", "ai-move-failed"}
                     /\ e.file # mv.file.name.base

\* the registry entries (as paths relative to the root) of a list of entries
PathsOf(list) == {list[k].path : k \in 1..Len(list)}
\* the directories the moves logged so far were recorded under
RecordedByMoves ==
  {Relative(ROOT_DIR, e.to.dir) : e \in {x \in log : x.msg = "moved"}} \ {<<>>}

\* C15: whenever a batch is sent to the classifier, no move is in progress and the
\* directory list of the request holds every directory the moves made so far
\* (similarity phase and earlier batches) recorded; after a batch that yielded A
\* and A/B the next request holds both.
C15_RequestSeesEarlierMoves ==
  [][(run'.asked # run.asked) =>
       /\ mv.pc = "idle"
       /\ RecordedByMoves \subseteq PathsOf(run'.request)]_vars
C15_Witness ==
  /\ pc = "aiMove" /\ run.batchIndex = 2 /\ Len(run.batches[1]) = 2
  /\ {<<"A">>, <<"A", "B">>} \subseteq RecordedByMoves
  /\ \A d \in {<<"A">>, <<"A", "B">>} : InList(run.request, [path |-> d, slash |-> FALSE])

\* C16: from the seeding at run start until runOnce returns, every step leaves the
\* registry as it was or appends to it: no entry is removed or moved.
C16_RegistryOnlyGrows ==
  [][pc # "start" => IsPrefix(currentKnownDirs, currentKnownDirs')]_vars
C16_Witness ==
  /\ pc = "done" /\ Len(currentKnownDirs) >= 3
  /\ currentKnownDirs[1].slash /\ ~currentKnownDirs[Len(currentKnownDirs)].slash

\* the directories strictly below the root, as paths relative to it
DirsUnderRoot == {Relative(ROOT_DIR, d) : d \in {e \in dirs : IsPrefix(ROOT_DIR, e) /\ e # ROOT_DIR}}

\* C17: whenever a batch is sent to the classifier, every directory that exists
\* below the root (the seeded ones and the ones the moves of this run created,
\* parents of a nested target and targets of failed or skipped moves included)
\* is in the directory list of the request.
C17_CreatedDirsRecorded ==
  [][(run'.asked # run.asked) => DirsUnderRoot \subseteq PathsOf(run'.request)]_vars

\* C18: all entries of the registry have the same trailing-separator form, and no
\* directory has two entries.
C18_OneSpellingPerDirectory ==
  \A i, j \in 1..Len(currentKnownDirs) :
    /\ currentKnownDirs[i].slash = currentKnownDirs[j].slash
    /\ (i # j => currentKnownDirs[i].path # currentKnownDirs[j].path)

\* the files of the similarity list, of the classifier list and of the batches
SimilarityRouted == {run.similarityResults[k].fileName : k \in 1..Len(run.similarityResults)}
ClassifierRouted == {run.needAIClassification[k] : k \in 1..Len(run.needAIClassification)}
Batched == UNION {{run.batches[k][j] : j \in 1..Len(run.batches[k])} : k \in 1..Len(run.batches)}
\* some known file scores at least the threshold against incoming file b
HasHit(b) ==
  \E k \in 1..Len(run.knownFiles) :
    LET sc == computeSimilarity(b, run.knownFiles[k].name.base)
    IN sc.num * 100 >= SIMILARITY_THRESHOLD_PCT * sc.den

\* after the similarity loop every listed file is in exactly one of the two
\* lists, and only files of the classifier list are in the batches
RoutedOnce ==
  pc \notin {"start", "match"} =>
    /\ \A b \in Listed : (b \in SimilarityRouted) # (b \in ClassifierRouted)
    /\ Len(run.similarityResults) + Len(run.needAIClassification) = Len(run.filesToProcess)
    /\ Batched \subseteq ClassifierRouted \ SimilarityRouted
\* an iteration of the similarity loop appends its file to the similarity list if
\* some known file scores at least the threshold, else to the classifier list
MatchRoutes ==
  pc = "match" =>
    LET f == run.filesToProcess[run.idx]
    IN IF HasHit(f)
       THEN /\ Len(run'.similarityResults) = Len(run.similarityResults) + 1
            /\ run'.similarityResults[Len(run'.similarityResults)].fileName = f
            /\ run'.needAIClassification = run.needAIClassification
       ELSE /\ run'.needAIClassification = Append(run.needAIClassification, f)
            /\ run'.similarityResults = run.similarityResults
\* after the loop the two lists stay as they are
ListsFixed ==
  pc \notin {"start", "match"} =>
    /\ run'.similarityResults = run.similarityResults
    /\ run'.needAIClassification = run.needAIClassification

\* C19: every listed file is routed to exactly one method: the similarity loop
\* puts it into the similarity list iff some known file scores at least
\* SIMILARITY_THRESHOLD against it and into the classifier list otherwise, the
\* lists do not change afterwards, and only files of the classifier list are
\* sent to the classifier.
C19_RoutedExactlyOnce ==
  []RoutedOnce /\ [][MatchRoutes /\ ListsFixed]_vars
C19_Witness ==
  /\ pc = "done" /\ SimilarityRouted # {} /\ Batched # {}
  /\ Len(run.knownFiles) > 0

\* C20: while runOnce waits for the move of a file whose response entry gave an
\* empty (or all-blank) path, the directory it passed to moveFile is the default
\* directory under the root, and a move that succeeded put the file there.
C20_EmptyPathToDefault ==
  (pc = "aiWait" /\ run.given = <<>>) =>
    /\ run.targetDir = Join(ROOT_DIR, DEFAULT_BUCKET)
    /\ (Returned /\ mv.result = "ok" /\ Normal) =>
          mv.finalPath.dir = Join(ROOT_DIR, DEFAULT_BUCKET)

\* C21: the step of runOnce that takes up a response entry lacking its path field
\* (for a file of the batch) logs the empty-path warning, calls moveFile for the
\* file with the default directory under the root as target, and logs no move
\* failure for the file.
C21_MissingPathToDefault ==
  [][\A b \in run'.lacking \ run.lacking :
       /\ L("empty-path", b, NoPath) \in log'
       /\ pc' = "aiWait" /\ mv'.pc = "entry"
       /\ mv'.file = P(INCOMING_DIR, Plain(b))
       /\ mv'.targetDir = Join(ROOT_DIR, DEFAULT_BUCKET)
       /\ L("ai-move-failed", b, NoPath) \notin log']_vars

\* C22: a file of the run's listing never lies, under its own name, in a
\* directory under the root whose last segment is that name (a path X/b/b),
\* whatever path the classifier returned.
C22_NoNestedOwnName ==
  \A p \in DOMAIN files :
    (UnderRoot(p) /\ files[p] \in Listed /\ p.name = Plain(files[p]))
      => basename(p.dir) # files[p]

C24_OnlyScanAborts ==
  /\ [](pc = "rejected" => (run = NoRun /\ mv = IdleFrame /\ log = {}))
  /\ [][pc' = "rejected" => pc \in {"start", "rejected"}]_vars
C24_Witness ==
  /\ pc = "done"
  /\ \E e \in log : e.msg = "batch-failed"
  /\ \E e \in log : e.msg = "ai-move-failed" /\ e.file \notin run.lacking

\* the score of the k-th known file against the file name of the call, and the
\* order of two such scores
ScoreOf(k) == computeSimilarity(fn.fileName, fn.known[k].name.base)
Below(x, y) == x.num * y.den < y.num * x.den

\* C25: findMostSimilarFile returns the first known file, in list order, whose
\* score is maximal (no known file scores higher, every earlier one scores
\* lower), with that file's directory and score; for an empty list it returns
\* null, null and -Infinity.
C25_FirstMaximalWins ==
  (fn.op = "findMostSimilarFile" /\ fn.pc = "return") =>
    IF Len(fn.known) = 0
    THEN ~fn.best.found /\ fn.best.bestScore = NegInfinity
    ELSE \E i \in 1..Len(fn.known) :
           /\ fn.best.found
           /\ fn.best.bestRelPath = fn.known[i]
           /\ fn.best.bestDir = fn.known[i].dir
           /\ fn.best.bestScore = ScoreOf(i)
           /\ \A j \in 1..Len(fn.known) : ~Below(ScoreOf(i), ScoreOf(j))
           /\ \A j \in 1..(i - 1) : Below(ScoreOf(j), ScoreOf(i))
C25_Witness ==
  /\ fn.op = "findMostSimilarFile" /\ fn.pc = "return" /\ Len(fn.known) = 3
  /\ Below(ScoreOf(1), ScoreOf(2)) /\ ScoreOf(2) = ScoreOf(3)
  /\ fn.known[2] # fn.known[3]
  /\ fn.best.bestRelPath = fn.known[2]

\* two names are equal up to the case of their letters
SameLetter(c, d) ==
  c = d \/ {c, d} \in {{"a", "A"}, {"b", "B"}, {"c", "C"}, {"z", "Z"}}
EqualIgnoringCase(a, b) ==
  /\ Len(Chars(a)) = Len(Chars(b))
  /\ \A k \in 1..Len(Chars(a)) : SameLetter(Chars(a)[k], Chars(b)[k])
Namesakes == {k \in 1..Len(fn.known) : EqualIgnoringCase(fn.fileName, fn.known[k].name.base)}

\* C26: when some known file's basename equals the incoming file name up to case,
\* findMostSimilarFile returns score 1 and the directory of a known file whose
\* basename equals the name up to case.
C26_NamesakeScoresOne ==
  (fn.op = "findMostSimilarFile" /\ fn.pc = "return" /\ Namesakes # {}) =>
    /\ fn.best.found /\ ~fn.best.bestScore.neg
    /\ fn.best.bestScore.num = fn.best.bestScore.den
    /\ \E k \in Namesakes : fn.best.bestDir = fn.known[k].dir
C26_Witness ==
  /\ fn.op = "findMostSimilarFile" /\ fn.pc = "return"
  /\ fn.fileName = "abc1" /\ Len(fn.known) = 3
  /\ Namesakes = {3} /\ fn.known[3] = P(<<"A">>, Plain("ABC1"))
  /\ fn.known[1].dir = <<>>
  /\ fn.best.bestDir = <<"A">>

\* the nesting level below the root of a directory and of a file
LevelOfDir(d) == Len(d) - Len(ROOT_DIR)
LevelOfFile(p) == Len(p.dir) - Len(ROOT_DIR) + 1
Elements(list) == {list[k] : k \in 1..Len(list)}

\* C27: with MAX_SCAN_DEPTH = D, scanDirs returns (once each) exactly the
\* directories and scanFiles exactly the regular files at nesting levels 1..D+1
\* below the root; both return the empty list when the root does not exist.
C27_ScanDepth ==
  (fn.op = "scan" /\ fn.pc = "return") =>
    /\ PathsOf(fn.dirsOut) =
         {Relative(ROOT_DIR, d) :
            d \in {e \in dirs : IsPrefix(ROOT_DIR, e) /\ LevelOfDir(e) \in 1..(fn.maxDepth + 1)}}
    /\ Elements(fn.filesOut) =
         {P(Relative(ROOT_DIR, q.dir), q.name) :
            q \in {e \in DOMAIN files : /\ IsPrefix(ROOT_DIR, e.dir) /\ files[e] # "socket"
                                         /\ LevelOfFile(e) \in 1..(fn.maxDepth + 1)}}
    /\ Len(fn.dirsOut) = Cardinality(PathsOf(fn.dirsOut))
    /\ Len(fn.filesOut) = Cardinality(Elements(fn.filesOut))
    /\ ROOT_DIR \notin dirs => (fn.dirsOut = <<>> /\ fn.filesOut = <<>>)
C27_Witness ==
  /\ fn.op = "scan" /\ fn.pc = "return" /\ fn.maxDepth = 0
  /\ ROOT_DIR \o <<"A", "B">> \in dirs
  /\ {P(ROOT_DIR, Plain("f")), P(ROOT_DIR, Plain("s")), P(ROOT_DIR \o <<"A">>, Plain("f"))}
       \subseteq DOMAIN files
  /\ PathsOf(fn.dirsOut) = {<<"A">>, <<"Z">>}
  /\ Elements(fn.filesOut) = {P(<<>>, Plain("f"))}

\* C28: getFileDescription never rejects; whatever the file (missing, empty,
\* unreadable, metadata tool failing) the value it resolves to is a string, and
\* for a missing file that string is empty.
C28_ResolvesToString ==
  /\ fn.op = "getFileDescription" => fn.pc # "rejected"
  /\ (fn.op = "getFileDescription" /\ fn.pc = "return") =>
       /\ fn.result.type = "string"
       /\ fn.file.status = "missing" => fn.result = Str(<<>>)

\* The labels of the two lines the tests expect (test lines 303 and 340), in
\* ASCII: "meta: " for the metadata label, "summary: " for the summary label.
MetaLabel == <<"m", "e", "t", "a", ":", " ">>
SummaryLabel == <<"s", "u", "m", "m", "a", "r", "y", ":", " ">>
StartsWith(w, prefix) ==
  Len(w) >= Len(prefix) /\ SubSeq(w, 1, Len(prefix)) = prefix
\* a readable text file with content
NonEmptyTextFile(file) ==
  /\ file.status = "ok" /\ Len(file.content.bytes) > 0
  /\ isTextFile(file)

\* C29: for a non-empty text file getFileDescription returns a string of exactly
\* two lines, the first starting with the metadata label and the second being the
\* summary label followed by the content summary, which is the name field for a
\* JSON file that has one.
C29_TwoLabelledLines ==
  (fn.op = "getFileDescription" /\ fn.pc = "return" /\ NonEmptyTextFile(fn.file)) =>
    /\ fn.result.type = "string"
    /\ LET lines == splitLines(fn.result.chars, <<>>)
       IN /\ Len(lines) = 2
          /\ StartsWith(lines[1], MetaLabel)
          /\ StartsWith(lines[2], SummaryLabel)
          /\ (fn.file.ext = ".json" /\ fn.file.content.json.name.type = "string"
                /\ Truthy(fn.file.content.json.name)) =>
               lines[2] = SummaryLabel \o fn.file.content.json.name.chars

\* a file that has bytes to read and whose first bytes are one of the signatures
\* of PNG, JPEG, GIF, PDF, ZIP, RAR, ELF or PE/EXE
StartsWithBinarySignature(file) ==
  /\ file.status \notin {"missing", "dir"}
  /\ \E signature \in BINARY_SIGNATURES :
       StartsWith(file.content.bytes, signature)

\* C30 as stated: checkIsTextFile returns false for every file whose leading
\* bytes match one of the known binary signatures, whatever the file's extension.
C30_SignatureAlwaysBinary ==
  (fn.op = "checkIsTextFile" /\ fn.pc = "return" /\ StartsWithBinarySignature(fn.file)) =>
    fn.isText = FALSE

\* C30 (amended): for a file whose leading bytes match one of the known binary
\* signatures checkIsTextFile returns false when the file's extension is not one
\* of the text extensions, and true when it is.
C30_SignatureBinaryUnlessTextExtension ==
  (fn.op = "checkIsTextFile" /\ fn.pc = "return" /\ StartsWithBinarySignature(fn.file)) =>
    (fn.isText <=> fn.file.ext \in TEXT_FILE_EXTENSIONS)
C30_Witness ==
  /\ fn.op = "checkIsTextFile" /\ fn.pc = "return"
  /\ fn.file.status = "ok" /\ fn.file.ext = ".dat"
  /\ fn.file.content.bytes = <<37, 80, 68, 70, 45>>
  /\ fn.isText = FALSE

\* C31: every moveFile call terminates in one of the outcomes Done, Skipped or
\* Failed after finitely many steps, whatever errors the file system returns,
\* repeated destination-exists errors caused by another process creating the
\* generated names included.
C31_MoveTerminates ==
  <>(Returned /\ mv.result \in {"ok", "skipped", "throw"})

\* every incoming file has its similarity decision
Decided(r) ==
  Len(r.similarityResults) + Len(r.needAIClassification) = Len(r.filesToProcess)
\* the move of every similarity hit has ended, with a report or a logged failure
SimilarityMovesOver(r, lg) ==
  \A k \in 1..Len(r.similarityResults) :
    \E e \in lg : /\ e.file = r.similarityResults[k].fileName
                  /\ e.msg \in {"moved", "sim-move-failed"}

\* C32: the phases of a run are strictly ordered: all similarity decisions are
\* taken before any move; all similarity moves finish before the first classifier
\* call; for each batch the classifier call returns before any move of that batch
\* and all moves of that batch finish before the next batch's classifier call; no
\* two moves are in progress at the same time.
C32_PhasesOrdered ==
  /\ [](mv.pc # "idle" => Decided(run))
  /\ [][run'.asked # run.asked =>
          /\ mv = IdleFrame /\ mv' = IdleFrame
          /\ SimilarityMovesOver(run, log)
          /\ run'.asked = run.asked \cup {run.batchIndex}
          /\ \A b \in run.asked : b < run.batchIndex]_vars
  /\ [][(mv'.pc = "entry" /\ pc' = "aiWait") =>
          /\ run.batchIndex \in run.asked
          /\ InList(run.batches[run.batchIndex], mv'.file.name.base)]_vars
  /\ [][mv'.pc = "entry" => mv.pc = "idle"]_vars
  /\ [][(mv.pc # "idle" /\ mv'.pc \in {"idle", "entry"}) => mv.pc = "return"]_vars
C32_Witness ==
  /\ pc = "done"
  /\ Len(run.similarityResults) >= 1 /\ Cardinality(run.asked) = 2
  /\ Cardinality({e \in log : e.msg = "moved"}) = 3

RECURSIVE Flat(_)
Flat(chunks) == IF chunks = <<>> THEN <<>> ELSE Head(chunks) \o Flat(Tail(chunks))

\* C33: the batches built for the classifier partition the list of files needing
\* classification: concatenated in order they equal that list, every batch is
\* non-empty and has at most AI_BATCH_SIZE files, and batching terminates (the
\* loop pushes no more batches than the list has files) for every configured
\* batch size, 0 and negative values included.
C33_BatchesPartition ==
  fn.op = "chunkArray" =>
    /\ \A k \in 1..Len(fn.chunks) :
         fn.chunks[k] # <<>> /\ Len(fn.chunks[k]) <= fn.chunkSize
    /\ Len(Flat(fn.chunks)) <= Len(fn.array)
    /\ Flat(fn.chunks) = SubSeq(fn.array, 1, Len(Flat(fn.chunks)))
    /\ Len(fn.chunks) <= Len(fn.array)
    /\ fn.pc = "return" => Flat(fn.chunks) = fn.array

\* C34: scheduled invocations of runOnce do not overlap: a cron tick that fires
\* while a previous runOnce of the same MainService is in progress starts no
\* second run, so the directory registry of a run is never reset or mutated by
\* another run.
C34_NoOverlappingRuns ==
  fn.op = "runOnce" => (pc \in {"done", "rejected"} /\ ~fn.reset)

\* C35: a classification error on the MCP server side (the tool returns an error
\* payload with isError) reaches the orchestrator as a thrown exception from
\* classifyBatch, never as an empty or partial result list.
C35_ServerErrorIsThrown ==
  (fn.op = "classifyBatch" /\ fn.pc = "return" /\ fn.payload.isError) =>
    fn.outcome.kind = "thrown"
C35_Witness ==
  /\ fn.op = "classifyBatch" /\ fn.pc = "return"
  /\ fn.payload.isError /\ fn.transport = "delivers"
  /\ fn.reply.kind = "throws" /\ fn.reply.message = <<"timeout">>
  /\ fn.outcome.kind = "thrown"
  /\ fn.outcome.value = <<"parse-result-failed:", "classification-failed:", "timeout">>


\* C36: the ProcessManager runs the registered cleanup functions at most once
\* per process and in registration order (the k-th call made is the call of the
\* k-th registered function), each one is awaited before the next is called
\* (at most the last call made is still unsettled), and a cleanup that throws
\* or rejects does not keep the later ones from running: when executeCleanup
\* returns, every registered function has been called and has settled.
C36_CleanupOnceInOrder ==
  /\ [](fn.op = "processManager" =>
          /\ \A k \in 1..Len(fn.started) : fn.started[k] = k
          /\ Len(fn.started) <= Len(fn.cleanupFunctions)
          /\ \A k \in 1..Len(fn.finished) : fn.finished[k] = k
          /\ Len(fn.finished) = Len(fn.started) - (IF fn.awaiting THEN 1 ELSE 0))
  /\ [][(fn.op = "processManager" /\ ~CleanupReturned(fn) /\ CleanupReturned(fn'))
          => /\ Len(fn'.started) = Len(fn'.cleanupFunctions)
             /\ fn'.finished = fn'.started]_vars
\* three functions were registered, the first threw, the second rejected, and
\* the third ran all the same; the handler has not yet called process.exit
C36_Witness ==
  /\ fn.op = "processManager" /\ CleanupReturned(fn)
  /\ fn.cleanupFunctions = <<"throws", "rejects", "resolves">>
  /\ fn.started = <<1, 2, 3>> /\ fn.finished = <<1, 2, 3>>
  /\ fn.errors = 2 /\ fn.owner = "0" /\ ~fn.exited

\* C37: the process exits through the ProcessManager only after every cleanup
\* has completed or failed: whenever one of its handlers has called
\* process.exit, executeCleanup had run its loop to the end, also when a second
\* signal or an uncaught exception arrives during the clean-up.
C37_ExitAfterCleanup ==
  (fn.op = "processManager" /\ fn.exited) =>
     /\ CleanupReturned(fn)
     /\ Len(fn.finished) = Len(fn.cleanupFunctions)

\* C38: the path the orchestrator reports for a moved file (the 'to' field of
\* its "moved" log entry) is the path at which the file lies after the move:
\* each time runOnce writes such an entry, 'to' is the final path of the move
\* just awaited and a file lies there, also when the mover took a generated
\* unique name or skipped the move because the source was missing.
C38_ReportedPathIsFinalPath ==
  [][\A e \in log' \ log :
       e.msg = "moved" => /\ mv.result = "ok"
                          /\ e.to = mv.finalPath
                          /\ e.to \in DOMAIN files]_vars

\* C39: for every path the classifier may return, '..' segments included, every
\* file a run moves ends inside the destination root (the content of an
\* incoming file lies in the incoming directory or below ROOT_DIR, nowhere
\* else), and only files directly in the incoming directory are moved (each
\* moveFile call is for such a file, and the files that lay in the tree before
\* stay where they were).
C39_MovesStayUnderRoot ==
  /\ \A p \in DOMAIN files :
       files[p] # "old" => (p.dir = INCOMING_DIR \/ UnderRoot(p))
  /\ mv.pc # "idle" => /\ mv.file.dir = INCOMING_DIR
                       /\ IsPrefix(ROOT_DIR, mv.targetDir)

\* C40: whenever the cross-device fallback of a move ends with an error while
\* the source is still in place (the copy, a stat, the size comparison or one
\* of the two renames of the temporary file failed), the temporary file this
\* move created is gone from the target directory.
C40_FailedFallbackLeavesNoTemp ==
  (Returned /\ mv.exdev /\ mv.result = "throw" /\ mv.unlinks = 0) =>
    \A p \in DOMAIN files :
      (p.dir = mv.targetDir /\ p.name.kind = "tmp") => p \in DOMAIN mv.before.files

====
